---- MODULE Spec2Model ----
(***************************************************************************)
(* Model of the in-browser OMR pipeline analyzeOmrImage                    *)
(* (src/src/components/UploadInterface.tsx, second half: omrProcessor).    *)
(*                                                                         *)
(* The image-processing toolkit (OpenCV.js) is an external collaborator:   *)
(* what it returns for an image (the image height, the contours found,     *)
(* the pixel counts inside every bubble mask) is a nondeterministic input, *)
(* drawn from bounded sets when the corresponding call is made.  Native    *)
(* toolkit objects (Mat, MatVector, CLAHE) are tracked in the set live    *)
(* from their creation to their delete().                                 *)
(*                                                                         *)
(* A second call of analyzeOmrImage on another image is the record peer:   *)
(* JavaScript runs each callback to its end, so the second call takes its  *)
(* steps only while the first is suspended at an await or has finished.    *)
(*                                                                         *)
(* The upload path is the form of UploadInterface (file selection with     *)
(* validateFile, exam version and date, handleUpload), the loop of         *)
(* handleFileUpload (src/unnamed/part_002) that posts the files one by     *)
(* one, and the server's upload-sheet route (src/unnamed/part_000).        *)
(*                                                                         *)
(* Calls made on one and the same image element are the function calls;    *)
(* the element's onload and onerror slots are the record handlers.  The    *)
(* server's key-value store is kv, the background processing started for   *)
(* each accepted upload is a record of tasks, and clock is what Date.now() *)
(* returns.                                                                *)
(*                                                                         *)
(* Specifications: Spec (one call), SpecSheet (the stages of a call after  *)
(* findContours), SpecPair (two calls on two images), SpecShared (calls    *)
(* on one image element), SpecUpload (the upload form and the route) and   *)
(* SpecServer (the route and the background processing).                   *)
(*                                                                         *)
(* Numbers: coordinates and areas are integers; fill ratios, scores and    *)
(* the running mean are exact rationals [n, d] (the code uses doubles);    *)
(* thresholds are in percent; pi is taken as 22/7 in the circularity test. *)
(***************************************************************************)
EXTENDS Integers, Sequences, FiniteSets, TLC

VARIABLES pc, opts, cvReady, imgComplete, height, contours, live, gray,
          blurredFrom, claheFailed, bubbles, filledBubbles, rows, questions,
          result, failedAt, trace,
          peer,
          selectedFiles, examVersion, examDate, uploading, pending,
          responses, jobs,
          calls, element, handlers,
          clock, kv, tasks

\* the variables of the first call, with the toolkit's readiness
callVars == <<pc, opts, cvReady, imgComplete, height, contours, live, gray,
              blurredFrom, claheFailed, bubbles, filledBubbles, rows,
              questions, result, failedAt, trace>>

\* the variables of the upload path
uploadVars == <<selectedFiles, examVersion, examDate, uploading, pending,
                responses, jobs>>

\* calls made on one image element: where each call is, the state of the
\* element, and the calls whose resolve and reject sit in its onload and
\* onerror slots
elementVars == <<calls, element, handlers>>

\* the server: the clock Date.now() reads, the key-value store, and the
\* background processing started for each accepted upload
serverVars == <<clock, kv, tasks>>

vars == <<callVars, peer, uploadVars, elementVars, serverVars>>

----------------------------------------------------------------------------
(* Bounds of the model *)

\* largest number of rows of a generated answer sheet
MaxRows == 2
\* number of calls made on one image element
MaxCalls == 3
\* last reading of the server's clock, in milliseconds from its start
MaxClock == 1
\* number of student numbers a result can carry
MaxStudents == 2
\* largest number of bubbles in one row of a generated answer sheet
MaxCols == 5
\* largest number of bubbles in a generated single row with free fill levels
MaxRowLen == 5
\* largest number of contours of a free-form image
MaxContours == 2
\* largest expectedOptions a caller passes
MaxExpected == 5
\* largest number of files in the upload form
MaxFiles == 2
\* largest number of job records the server holds
MaxJobs == 2

----------------------------------------------------------------------------
(* Arithmetic helpers: exact rationals standing for the code's doubles *)

Abs(i) == IF i < 0 THEN -i ELSE i

Max2(a, b) == IF a >= b THEN a ELSE b

RECURSIVE GCD(_, _)
GCD(a, b) == IF b = 0 THEN a ELSE GCD(b, a % b)

\* a rational in lowest terms, d > 0
Rat(n, d) == LET g == GCD(Abs(n), d) IN [n |-> n \div g, d |-> d \div g]

RatAdd(a, b) == Rat(a.n * b.d + b.n * a.d, a.d * b.d)

RatDivInt(a, k) == Rat(a.n, a.d * k)

RatGT(a, b) == a.n * b.d > b.n * a.d

RatGE(a, b) == a.n * b.d >= b.n * a.d

\* Math.round for a non-negative quotient n/d: nearest integer, halves up
RoundDiv(n, d) == (2 * n + d) \div (2 * d)

----------------------------------------------------------------------------
(* Program constants *)

\* default options of analyzeOmrImage
DefaultMinBubbleArea == 150
DefaultMaxBubbleArea == 20000
\* default fillThreshold 0.35, in percent
DefaultFillThreshold == 35
\* circularity floors of the two passes, in percent
MinCircularity == 35
RelaxedCircularity == 28
\* the relaxed pass runs below this many candidates
MinCandidates == 10
\* floor of the row tolerance and the divisor of the image height
MinRowTolerance == 8
RowToleranceDivisor == 200

\* an optional value: <<>> is undefined, <<v>> is v
Undefined == <<>>

Some(v) == <<v>>

\* options.fillThreshold ?? 0.35, as a rational
FillThreshold(o) ==
    IF o.fillThreshold = Undefined THEN Rat(DefaultFillThreshold, 100)
    ELSE Rat(o.fillThreshold[1], 100)

\* options.expectedOptions when it is truthy (defined and non-zero), else 0
ExpectedOptions(o) ==
    IF o.expectedOptions = Undefined THEN 0 ELSE o.expectedOptions[1]

----------------------------------------------------------------------------
(* Candidate extraction *)

\* mutant of AreaRejected: the bounds themselves are rejected
AreaRejectedAtBounds(area, lo, hi) == area <= lo \/ area >= hi

\* area < min || area > max: the contour is skipped
AreaRejected(area, lo, hi) == area < lo \/ area > hi

\* circularity = perim > 0 ? 4*PI*area / perim^2 : 0; test circularity < floor
CircularityBelow(area, perim, floorPct) ==
    IF perim > 0 THEN 88 * area * 100 < floorPct * 7 * perim * perim
    ELSE 0 < floorPct

\* first pass: area within [minBubbleArea, maxBubbleArea], circularity >= 0.35
AcceptedFirst(c, o) ==
    /\ ~AreaRejected(c.area, o.minBubbleArea, o.maxBubbleArea)
    /\ ~CircularityBelow(c.area, c.perim, MinCircularity)

\* relaxed pass: area within [0.6*min, 2*max], circularity >= 0.28
AcceptedRelaxed(c, o) ==
    /\ ~(10 * c.area < 6 * o.minBubbleArea \/ c.area > 2 * o.maxBubbleArea)
    /\ ~CircularityBelow(c.area, c.perim, RelaxedCircularity)

MkBubble(c, i) ==
    [x |-> c.x, y |-> c.y, r |-> c.r, contourIndex |-> i,
     total |-> c.total, white |-> c.white]

\* the loop of the first pass from contour i on; contourIndex is 0-based
RECURSIVE FirstPass(_, _, _, _)
FirstPass(cs, i, o, acc) ==
    IF i > Len(cs) THEN acc
    ELSE FirstPass(cs, i + 1, o,
                   IF AcceptedFirst(cs[i], o)
                   THEN Append(acc, MkBubble(cs[i], i - 1)) ELSE acc)

\* mutant of Nearby: <= for <
NearbyInclusive(b, c) ==
    LET dx == b.x - c.x
        dy == b.y - c.y
    IN  IF 6 * c.r > 50
        THEN 100 * (dx * dx + dy * dy) <= 36 * c.r * c.r
        ELSE dx * dx + dy * dy <= 25

\* Math.hypot(b.x - cx, b.y - cy) < Math.max(5, radius * 0.6)
Nearby(b, c) ==
    LET dx == b.x - c.x
        dy == b.y - c.y
    IN  IF 6 * c.r > 50
        THEN 100 * (dx * dx + dy * dy) < 36 * c.r * c.r
        ELSE dx * dx + dy * dy < 25

\* mutant of NeedsRelaxedPass: <= for <
NeedsRelaxedPassInclusive(bs) == Len(bs) <= MinCandidates

\* if (bubbles.length < 10): the relaxed pass is needed
NeedsRelaxedPass(bs) == Len(bs) < MinCandidates

\* mutant of RelaxedPass: no search for a nearby candidate
RECURSIVE RelaxedPassNoDedup(_, _, _, _)
RelaxedPassNoDedup(cs, i, o, acc) ==
    IF i > Len(cs) THEN acc
    ELSE RelaxedPassNoDedup(cs, i + 1, o,
                            IF AcceptedRelaxed(cs[i], o)
                            THEN Append(acc, MkBubble(cs[i], i - 1)) ELSE acc)

\* the loop of the relaxed pass from contour i on
RECURSIVE RelaxedPass(_, _, _, _)
RelaxedPass(cs, i, o, acc) ==
    IF i > Len(cs) THEN acc
    ELSE RelaxedPass(cs, i + 1, o,
                     IF /\ AcceptedRelaxed(cs[i], o)
                        /\ ~\E k \in 1..Len(acc) : Nearby(acc[k], cs[i])
                     THEN Append(acc, MkBubble(cs[i], i - 1)) ELSE acc)

----------------------------------------------------------------------------
(* Fill classification *)

\* mutant of FilledRatio: the fraction of light pixels
FilledRatioLight(total, white) ==
    IF total > 0 THEN Rat(white, total) ELSE Rat(0, 1)

\* filledRatio = totalMask > 0 ? (totalMask - whiteInside) / totalMask : 0
FilledRatio(total, white) ==
    IF total > 0 THEN Rat(total - white, total) ELSE Rat(0, 1)

Classified(b, o) ==
    [x |-> b.x, y |-> b.y, r |-> b.r, contourIndex |-> b.contourIndex,
     filledRatio |-> FilledRatio(b.total, b.white),
     isFilled |-> RatGE(FilledRatio(b.total, b.white), FillThreshold(o))]

ClassifyAll(bs, o) == [i \in 1..Len(bs) |-> Classified(bs[i], o)]

----------------------------------------------------------------------------
(* Sorting: Array.prototype.sort is stable *)

\* comparator (a, b) => a.y - b.y || a.x - b.x is positive
AfterYX(a, b) == a.y > b.y \/ (a.y = b.y /\ a.x > b.x)

\* comparator (a, b) => a.x - b.x is positive
AfterX(a, b) == a.x > b.x

After(byX, a, b) == IF byX THEN AfterX(a, b) ELSE AfterYX(a, b)

\* insert e behind every element that does not come after it
RECURSIVE InsertSorted(_, _, _)
InsertSorted(byX, s, e) ==
    IF s = <<>> THEN <<e>>
    ELSE IF After(byX, s[Len(s)], e)
         THEN Append(InsertSorted(byX, SubSeq(s, 1, Len(s) - 1), e), s[Len(s)])
         ELSE Append(s, e)

RECURSIVE SortFrom(_, _, _, _)
SortFrom(byX, s, i, acc) ==
    IF i > Len(s) THEN acc
    ELSE SortFrom(byX, s, i + 1, InsertSorted(byX, acc, s[i]))

\* mutant of SortYX: the bubbles stay in detection order
SortYXSkipped(s) == s

\* filledBubbles.sort((a, b) => a.y - b.y || a.x - b.x)
SortYX(s) == SortFrom(FALSE, s, 1, <<>>)

\* mutant of SortX: the row is taken in its (y, x) order
SortXSkipped(s) == s

\* rows[qi].slice().sort((a, b) => a.x - b.x)
SortX(s) == SortFrom(TRUE, s, 1, <<>>)

----------------------------------------------------------------------------
(* Row clustering *)

\* mutant of RowTolerance: the quotient is truncated, not rounded
RowToleranceFloor(h) == Max2(MinRowTolerance, h \div RowToleranceDivisor)

\* Math.max(8, Math.round(src.rows / 200))
RowTolerance(h) == Max2(MinRowTolerance, RoundDiv(h, RowToleranceDivisor))

RECURSIVE SumY(_, _)
SumY(row, i) == IF i = 0 THEN 0 ELSE row[i].y + SumY(row, i - 1)

\* mutant of JoinsRow: the bubble is compared with the first member of the
\* row instead of the mean of its members
JoinsRowAnchored(bub, lastRow, tol) == Abs(bub.y - lastRow[1].y) <= tol

\* mutant of JoinsRow: the bubble is compared with the last member of the row
JoinsRowChained(bub, lastRow, tol) ==
    Abs(bub.y - lastRow[Len(lastRow)].y) <= tol

\* mutant of JoinsRow: < for <=
JoinsRowStrict(bub, lastRow, tol) ==
    Abs(bub.y * Len(lastRow) - SumY(lastRow, Len(lastRow)))
        < tol * Len(lastRow)

\* Math.abs(bub.y - avgY) <= rowTolerance, avgY the mean y of lastRow
JoinsRow(bub, lastRow, tol) ==
    Abs(bub.y * Len(lastRow) - SumY(lastRow, Len(lastRow)))
        <= tol * Len(lastRow)

\* the scan over filledBubbles from bubble i on
\* mutant of ClusterRows: a bubble outside the tolerance is left out
RECURSIVE ClusterRowsDropping(_, _, _, _)
ClusterRowsDropping(bs, i, tol, rs) ==
    IF i > Len(bs) THEN rs
    ELSE IF rs = <<>> THEN ClusterRowsDropping(bs, i + 1, tol, <<<<bs[i]>>>>)
    ELSE IF JoinsRow(bs[i], rs[Len(rs)], tol)
         THEN ClusterRowsDropping(bs, i + 1, tol,
                  [rs EXCEPT ![Len(rs)] = Append(rs[Len(rs)], bs[i])])
         ELSE ClusterRowsDropping(bs, i + 1, tol, rs)

RECURSIVE ClusterRows(_, _, _, _)
ClusterRows(bs, i, tol, rs) ==
    IF i > Len(bs) THEN rs
    ELSE IF rs = <<>> THEN ClusterRows(bs, i + 1, tol, <<<<bs[i]>>>>)
    ELSE IF JoinsRow(bs[i], rs[Len(rs)], tol)
         THEN ClusterRows(bs, i + 1, tol,
                  [rs EXCEPT ![Len(rs)] = Append(rs[Len(rs)], bs[i])])
         ELSE ClusterRows(bs, i + 1, tol, Append(rs, <<bs[i]>>))

----------------------------------------------------------------------------
(* Answer selection *)

\* mutant of GroupOf: the surplus bubbles all go to the last group
GroupOfTail(k, n, e) ==
    { i \in 1..n : (IF i - 1 < e THEN i - 1 ELSE e - 1) = k }

\* mutant of GroupOf: the bubbles are dealt to the groups in turn
GroupOfStriped(k, n, e) == { i \in 1..n : (i - 1) % e = k }

\* groups[Math.floor((i * expectedOptions) / row.length)].push(row[i]):
\* the 1-based positions of the row that fall into group k (0-based)
GroupOf(k, n, e) == { i \in 1..n : ((i - 1) * e) \div n = k }

RECURSIVE SumRatio(_, _, _)
SumRatio(row, idx, i) ==
    IF i = 0 THEN Rat(0, 1)
    ELSE IF i \in idx THEN RatAdd(row[i].filledRatio, SumRatio(row, idx, i - 1))
         ELSE SumRatio(row, idx, i - 1)

\* the scores of a row sorted by x: merged group means when the row has more
\* bubbles than a truthy expectedOptions, else the bubbles' own ratios
Scores(row, e) ==
    IF e # 0 /\ Len(row) > e
    THEN [k \in 1..e |->
            LET g == GroupOf(k - 1, Len(row), e)
            IN  RatDivInt(SumRatio(row, g, Len(row)), Cardinality(g))]
    ELSE [i \in 1..Len(row) |-> row[i].filledRatio]

\* mutant of ArgMax: a later equal score replaces the maximum (>= for >)
RECURSIVE ArgMaxLast(_, _, _, _)
ArgMaxLast(scores, i, maxIdx, maxScore) ==
    IF i > Len(scores) THEN [maxIdx |-> maxIdx, maxScore |-> maxScore]
    ELSE IF RatGE(scores[i], maxScore)
         THEN ArgMaxLast(scores, i + 1, i - 1, scores[i])
         ELSE ArgMaxLast(scores, i + 1, maxIdx, maxScore)

\* the argmax loop: maxIdx and maxScore after scanning scores[i..]
RECURSIVE ArgMax(_, _, _, _)
ArgMax(scores, i, maxIdx, maxScore) ==
    IF i > Len(scores) THEN [maxIdx |-> maxIdx, maxScore |-> maxScore]
    ELSE IF RatGT(scores[i], maxScore)
         THEN ArgMax(scores, i + 1, i - 1, scores[i])
         ELSE ArgMax(scores, i + 1, maxIdx, maxScore)

\* mutant of Selected: the maximum must exceed the threshold (> for >=)
SelectedStrict(scores, thr) ==
    LET m == ArgMax(scores, 1, -1, Rat(-1, 1))
    IN  IF RatGT(m.maxScore, thr) THEN Some(m.maxIdx) ELSE Undefined

\* mutant of Selected: the maximum is selected whatever the threshold
SelectedUngated(scores, thr) ==
    Some(ArgMax(scores, 1, -1, Rat(-1, 1)).maxIdx)

\* selected = maxScore >= fillThreshold ? maxIdx : null  (null is <<>>)
Selected(scores, thr) ==
    LET m == ArgMax(scores, 1, -1, Rat(-1, 1))
    IN  IF RatGE(m.maxScore, thr) THEN Some(m.maxIdx) ELSE Undefined

Question(row, qi, o) ==
    LET scores == Scores(SortX(row), ExpectedOptions(o))
    IN  [index |-> qi, selected |-> Selected(scores, FillThreshold(o)),
         scores |-> scores]

\* mutant of SelectAnswers: a sheet always gets at least one question
SelectAnswersPadded(rs, o) ==
    IF rs = <<>>
    THEN <<[index |-> 1, selected |-> Undefined, scores |-> <<>>]>>
    ELSE [qi \in 1..Len(rs) |-> Question(rs[qi], qi, o)]

\* mutant of SelectAnswers: no more questions than expectedQuestions
SelectAnswersTruncated(rs, o) ==
    LET n == IF o.expectedQuestions # Undefined
                  /\ o.expectedQuestions[1] < Len(rs)
             THEN o.expectedQuestions[1] ELSE Len(rs)
    IN  [qi \in 1..n |-> Question(rs[qi], qi, o)]

\* questions.push({ index: qi + 1, selected, scores }) for every row
SelectAnswers(rs, o) == [qi \in 1..Len(rs) |-> Question(rs[qi], qi, o)]

\* classification, sorting, clustering and selection of a list of
\* candidates, as one function of the candidates, the image height and the
\* options
AnalyzeCandidates(bs, h, o) ==
    LET fb == SortYX(ClassifyAll(bs, o))
        rs == ClusterRows(fb, 1, RowTolerance(h), <<>>)
    IN  [questions |-> SelectAnswers(rs, o), bubbles |-> fb, rows |-> rs]

\* the candidates of a contour list: the first pass, then the relaxed pass
\* when the first left fewer than ten
Candidates(cs, o) ==
    LET first == FirstPass(cs, 1, o, <<>>)
    IN  IF NeedsRelaxedPass(first) THEN RelaxedPass(cs, 1, o, first)
        ELSE first

\* what a call returns for a contour list when no toolkit call throws
Analyze(cs, h, o) ==
    LET a == AnalyzeCandidates(Candidates(cs, o), h, o)
    IN  [questions |-> a.questions, bubbles |-> a.bubbles, returned |-> TRUE]

----------------------------------------------------------------------------
(* What the toolkit can report for an image: bounded input families *)

\* a bubble mask holds 4 pixels; the bubbles of a generated single row show
\* this many dark ones: the fill ratios 1/4 and 1/2
DarkLevels == {1, 2}

\* image heights: rowTolerance is 8 for the first and 10 for the second
Heights == {1000, 2000}

\* a round region accepted by the first pass
Good(x, y, dark) ==
    [area |-> 1000, perim |-> 120, x |-> x, y |-> y, r |-> 18,
     total |-> 4, white |-> 4 - dark]

\* a small region only the relaxed pass accepts (area in [90, 150))
Smudge(x, y, dark) ==
    [area |-> 100, perim |-> 40, x |-> x, y |-> y, r |-> 6,
     total |-> 4, white |-> 4 - dark]

\* a large round region: too big for the first pass, accepted by the relaxed
Blob(x, y) ==
    [area |-> 30000, perim |-> 650, x |-> x, y |-> y, r |-> 100,
     total |-> 4, white |-> 2]

\* a region no pass accepts (area below 90)
Speck(x, y) ==
    [area |-> 50, perim |-> 30, x |-> x, y |-> y, r |-> 4,
     total |-> 4, white |-> 4]

\* findContours lists regions bottom-up: position i of n is element n + 1 - i
Reversed(s) == [i \in 1..Len(s) |-> s[Len(s) + 1 - i]]

\* an answer sheet of n rows of m bubbles, rows 40 apart, columns 50 apart,
\* odd columns lowered by jitter; odd rows have their bubble filled[1]
\* filled (fill ratio 1/2), even rows their bubble filled[2], the others
\* show one dark pixel (fill ratio 1/4)
Sheet(n, m, filled, jitter) ==
    Reversed([i \in 1..(n * m) |->
        LET q == ((i - 1) \div m) + 1
            c == ((i - 1) % m) + 1
        IN  Good(50 * c, 100 + 40 * (q - 1) + jitter * (c % 2),
                 IF filled[2 - (q % 2)] = c THEN 2 ELSE 1)])

\* the sheets whose odd columns are lowered by the row tolerance itself; on
\* the images where the tolerance is above its minimum every question has the
\* same column filled
Sheets(tol) ==
    { Sheet(t[1], t[2], t[3], tol) :
        t \in UNION { UNION { { <<n, m, f>> :
                                  f \in { g \in [1..2 -> 1..m] :
                                            tol = MinRowTolerance
                                               \/ g[1] = g[2] } }
                              : m \in 1..MaxCols } : n \in 1..MaxRows } }

\* one row of n bubbles with free fill levels; the last bubble sits 5 pixels
\* right of the one before it (a region detected twice), the others 50 apart
SingleRows ==
    UNION { { Reversed([i \in 1..n |->
                  Good(IF i = n /\ n > 1 THEN 50 * (n - 1) + 5 ELSE 50 * i,
                       100, d[i])]) :
                d \in [1..n -> DarkLevels] } : n \in 1..MaxRowLen }

\* y coordinates around the row tolerance of a 2000-pixel image
YMarks == {91, 100, 109, 111}

RECURSIVE SetToSeq(_)
SetToSeq(S) ==
    IF S = {} THEN <<>>
    ELSE LET m == CHOOSE v \in S : \A w \in S : v >= w
         IN  Append(SetToSeq(S \ {m}), m)

\* y coordinates along which the mean of a growing row drifts downwards
DriftMarks == {100, 110, 115, 118}

\* one bubble at each of some of the marks, in a single column
Columns ==
    { LET ys == SetToSeq(Y)
      IN  Reversed([i \in 1..Len(ys) |-> Good(50, ys[i], 0)]) :
        Y \in (SUBSET YMarks) \cup (SUBSET DriftMarks) }

\* regions of a free-form image
Palette ==
    { Good(50, 100, 0), Good(50, 100, 2), Good(100, 104, 2),
      Smudge(53, 100, 2), Smudge(55, 100, 2), Blob(110, 100),
      Speck(200, 100) }

RECURSIVE SeqsUpTo(_, _)
SeqsUpTo(S, n) ==
    IF n = 0 THEN {<<>>}
    ELSE LET shorter == SeqsUpTo(S, n - 1)
         IN  shorter \cup { Append(s, e) : s \in shorter, e \in S }

\* a region is listed once: no list repeats an element of the palette
FreeForm ==
    { s \in SeqsUpTo(Palette, MaxContours) :
         \A i, j \in 1..Len(s) : i # j => s[i] # s[j] }

\* the contour lists findContours can return for an image of height h
ContourLists(h) ==
    Sheets(RowTolerance(h)) \cup Columns
        \cup (IF h = 1000 THEN SingleRows \cup FreeForm ELSE {})

\* the options a caller passes (absent keys take the defaults)
OptionChoices ==
    [minBubbleArea : {DefaultMinBubbleArea},
     maxBubbleArea : {DefaultMaxBubbleArea},
     fillThreshold : {Undefined},
     expectedOptions : {Undefined} \cup { Some(e) : e \in 1..MaxExpected },
     expectedQuestions : {Undefined},
     debug : {FALSE}]
    \cup
    [minBubbleArea : {DefaultMinBubbleArea},
     maxBubbleArea : {DefaultMaxBubbleArea},
     fillThreshold : {Some(50)},
     expectedOptions : {Undefined, Some(4)},
     expectedQuestions : {Undefined},
     debug : {FALSE}]
    \cup
    [minBubbleArea : {DefaultMinBubbleArea},
     maxBubbleArea : {DefaultMaxBubbleArea},
     fillThreshold : {Undefined},
     expectedOptions : {Undefined, Some(4)},
     expectedQuestions : {Some(1)},
     debug : {FALSE}]

----------------------------------------------------------------------------
(* Native toolkit objects: each stage's calls in program order; a step that *)
(* creates an object names it, a step that creates none is ""; every step  *)
(* can throw                                                               *)

ImreadSteps == <<"src", "grayMat", "">>
ClaheSteps == <<"clahe", "claheDst", "">>
BlurSteps == <<"blurred", "">>
ThresholdSteps == <<"thresh", "">>
MorphSteps == <<"kernel", "closed", "">>
FindContoursSteps == <<"contours", "hierarchy", "">>
\* contours.get, contourArea, arcLength, minEnclosingCircle
PassSteps == <<"cnt", "", "", "">>
\* Mat.zeros, circle, Mat, bitwise_and, Mat, threshold, countNonZero (twice)
ClassifySteps == <<"mask", "", "masked", "", "tmp", "", "", "">>

\* the objects created by the steps before step k
CreatedBefore(steps, k) == { steps[j] : j \in 1..(k - 1) } \ {""}

Created(steps) == CreatedBefore(steps, Len(steps) + 1)

\* the stages in program order
Stages ==
    <<"waitForCv", "ensureImageEl", "imread", "clahe", "blur", "threshold",
      "morph", "findContours", "firstPass", "relaxedPass", "classify",
      "cluster", "select", "cleanup">>

NoResult == [questions |-> <<>>, bubbles |-> <<>>, returned |-> FALSE]

----------------------------------------------------------------------------
(* The state machine of one analyzeOmrImage call *)

\* no second call
NoPeer ==
    [pc |-> "absent", opts |-> <<>>, img |-> "none", height |-> 0,
     contours |-> <<>>, result |-> NoResult, failedAt |-> "none",
     sawMain |-> "none"]

\* the upload form as mounted, nothing posted
NoUpload ==
    /\ selectedFiles = <<>>
    /\ examVersion = ""
    /\ examDate = ""
    /\ uploading = FALSE
    /\ pending = <<>>
    /\ responses = <<>>
    /\ jobs = 0

\* no call on a shared image element
NoHandlers == [onload |-> 0, onerror |-> 0]

NoElement ==
    /\ calls = <<>>
    /\ element = "none"
    /\ handlers = NoHandlers

\* the server as started: an empty store, no processing under way
NoServer ==
    /\ clock = 0
    /\ kv = [processing |-> <<>>, results |-> <<>>]
    /\ tasks = <<>>

\* a call has just been made: nothing computed yet
CallStarts ==
    /\ pc = "waitForCv"
    /\ cvReady \in BOOLEAN
    /\ imgComplete \in {"loading", "complete", "empty"}
    /\ height = 0
    /\ contours = <<>>
    /\ live = {}
    /\ gray = "none"
    /\ blurredFrom = "none"
    /\ claheFailed = FALSE
    /\ bubbles = <<>>
    /\ filledBubbles = <<>>
    /\ rows = <<>>
    /\ questions = <<>>
    /\ result = NoResult
    /\ failedAt = "none"
    /\ trace = <<>>

Init ==
    /\ CallStarts
    /\ opts \in OptionChoices
    /\ peer = NoPeer
    /\ NoUpload
    /\ NoElement
    /\ NoServer

\* OpenCV.js finishes initialising (window.cv.Mat appears)
CvLoaded ==
    /\ ~cvReady
    /\ cvReady' = TRUE
    /\ UNCHANGED <<pc, opts, imgComplete, height, contours, live, gray,
                   blurredFrom, claheFailed, bubbles, filledBubbles, rows,
                   questions, result, failedAt, trace>>
    /\ UNCHANGED <<peer, uploadVars, elementVars, serverVars>>

\* await waitForCv(): resolves at once or on a later poll, when cv is there
waitForCv ==
    /\ pc = "waitForCv"
    /\ cvReady
    /\ pc' = "ensureImageEl"
    /\ trace' = Append(trace, "waitForCv")
    /\ UNCHANGED <<opts, cvReady, imgComplete, height, contours, live, gray,
                   blurredFrom, claheFailed, bubbles, filledBubbles, rows,
                   questions, result, failedAt>>
    /\ UNCHANGED <<peer, uploadVars, elementVars, serverVars>>

\* the browser finishes loading the image, or fails to.  "complete" is a
\* loaded image with pixels; "empty" is an image whose complete flag is set
\* and whose width and height are 0 (a zero-size image, or an element whose
\* load had failed before the call); "error" is a load that fails while the
\* call waits for it
ImageSettles ==
    /\ imgComplete = "loading"
    /\ imgComplete' \in {"complete", "empty", "error"}
    /\ UNCHANGED <<pc, opts, cvReady, height, contours, live, gray,
                   blurredFrom, claheFailed, bubbles, filledBubbles, rows,
                   questions, result, failedAt, trace>>
    /\ UNCHANGED <<peer, uploadVars, elementVars, serverVars>>

\* mutant of ensureImageEl: onerror resolves like onload
ensureImageElResolvesOnError ==
    /\ pc = "ensureImageEl"
    /\ imgComplete # "loading"
    /\ trace' = Append(trace, "ensureImageEl")
    /\ pc' = "imread"
    /\ UNCHANGED <<opts, cvReady, imgComplete, height, contours, live, gray,
                   blurredFrom, claheFailed, bubbles, filledBubbles, rows,
                   questions, result, failedAt>>
    /\ UNCHANGED <<peer, uploadVars, elementVars, serverVars>>

\* await ensureImageEl(...): resolves with the image (input.complete, or
\* onload) or rejects (onerror)
ensureImageEl ==
    /\ pc = "ensureImageEl"
    /\ imgComplete # "loading"
    /\ trace' = Append(trace, "ensureImageEl")
    /\ IF imgComplete \in {"complete", "empty"}
       THEN pc' = "imread" /\ UNCHANGED failedAt
       ELSE pc' = "failed" /\ failedAt' = "ensureImageEl"
    /\ UNCHANGED <<opts, cvReady, imgComplete, height, contours, live, gray,
                   blurredFrom, claheFailed, bubbles, filledBubbles, rows,
                   questions, result>>
    /\ UNCHANGED <<peer, uploadVars, elementVars, serverVars>>

\* src = cv.imread(canvas); gray = new cv.Mat(); cvtColor(src, gray).
\* The canvas has the image's size; from a canvas of width 0 the toolkit
\* gets no pixels (getImageData throws, cvtColor rejects an empty Mat), so
\* for an empty image only Throw is enabled here
Imread ==
    /\ pc = "imread"
    /\ imgComplete = "complete"
    /\ height' \in Heights
    /\ live' = live \cup Created(ImreadSteps)
    /\ gray' = "grayMat"
    /\ pc' = "clahe"
    /\ trace' = Append(trace, "imread")
    /\ UNCHANGED <<opts, cvReady, imgComplete, contours, blurredFrom,
                   claheFailed, bubbles, filledBubbles, rows, questions,
                   result, failedAt>>
    /\ UNCHANGED <<peer, uploadVars, elementVars, serverVars>>

\* the try block: CLAHE applied, gray replaced by the enhanced image
ClaheApplied ==
    /\ pc = "clahe"
    /\ live' = (live \cup Created(ClaheSteps)) \ {gray, "clahe"}
    /\ gray' = "claheDst"
    /\ pc' = "blur"
    /\ trace' = Append(trace, "clahe")
    /\ UNCHANGED <<opts, cvReady, imgComplete, height, contours, blurredFrom,
                   claheFailed, bubbles, filledBubbles, rows, questions,
                   result, failedAt>>
    /\ UNCHANGED <<peer, uploadVars, elementVars, serverVars>>

\* mutant of ClaheFails: without the try block the exception leaves the call
ClaheFailsAborts ==
    /\ pc = "clahe"
    /\ \E k \in 1..Len(ClaheSteps) :
           live' = live \cup CreatedBefore(ClaheSteps, k)
    /\ claheFailed' = TRUE
    /\ pc' = "failed"
    /\ failedAt' = "clahe"
    /\ trace' = Append(trace, "clahe")
    /\ UNCHANGED <<opts, cvReady, imgComplete, height, contours, gray,
                   blurredFrom, bubbles, filledBubbles, rows, questions,
                   result>>
    /\ UNCHANGED <<peer, uploadVars, elementVars, serverVars>>

\* a step of the try block throws: the catch swallows it, gray is untouched
ClaheFails ==
    /\ pc = "clahe"
    /\ \E k \in 1..Len(ClaheSteps) :
           live' = live \cup CreatedBefore(ClaheSteps, k)
    /\ claheFailed' = TRUE
    /\ pc' = "blur"
    /\ trace' = Append(trace, "clahe")
    /\ UNCHANGED <<opts, cvReady, imgComplete, height, contours, gray,
                   blurredFrom, bubbles, filledBubbles, rows, questions,
                   result, failedAt>>
    /\ UNCHANGED <<peer, uploadVars, elementVars, serverVars>>

\* blurred = new cv.Mat(); GaussianBlur(gray, blurred, 5x5)
Blur ==
    /\ pc = "blur"
    /\ live' = live \cup Created(BlurSteps)
    /\ blurredFrom' = IF gray = "claheDst" THEN "enhanced" ELSE "plain"
    /\ pc' = "threshold"
    /\ trace' = Append(trace, "blur")
    /\ UNCHANGED <<opts, cvReady, imgComplete, height, contours, gray,
                   claheFailed, bubbles, filledBubbles, rows, questions,
                   result, failedAt>>
    /\ UNCHANGED <<peer, uploadVars, elementVars, serverVars>>

\* thresh = new cv.Mat(); adaptiveThreshold(blurred, thresh, ...)
Threshold ==
    /\ pc = "threshold"
    /\ live' = live \cup Created(ThresholdSteps)
    /\ pc' = "morph"
    /\ trace' = Append(trace, "threshold")
    /\ UNCHANGED <<opts, cvReady, imgComplete, height, contours, gray,
                   blurredFrom, claheFailed, bubbles, filledBubbles, rows,
                   questions, result, failedAt>>
    /\ UNCHANGED <<peer, uploadVars, elementVars, serverVars>>

\* kernel = getStructuringElement(...); closed = new cv.Mat(); morphologyEx
Morph ==
    /\ pc = "morph"
    /\ live' = live \cup Created(MorphSteps)
    /\ pc' = "findContours"
    /\ trace' = Append(trace, "morph")
    /\ UNCHANGED <<opts, cvReady, imgComplete, height, contours, gray,
                   blurredFrom, claheFailed, bubbles, filledBubbles, rows,
                   questions, result, failedAt>>
    /\ UNCHANGED <<peer, uploadVars, elementVars, serverVars>>

\* the contour lists explored: all the families for a call on its own, the
\* columns for a call that runs beside a second call
ToolkitContours(h) ==
    IF peer.pc = "absent" THEN ContourLists(h) ELSE Columns

\* contours = new cv.MatVector(); hierarchy = new cv.Mat(); findContours
FindContours ==
    /\ pc = "findContours"
    /\ contours' \in ToolkitContours(height)
    /\ live' = live \cup Created(FindContoursSteps)
    /\ pc' = "firstPass"
    /\ trace' = Append(trace, "findContours")
    /\ UNCHANGED <<opts, cvReady, imgComplete, height, gray, blurredFrom,
                   claheFailed, bubbles, filledBubbles, rows, questions,
                   result, failedAt>>
    /\ UNCHANGED <<peer, uploadVars, elementVars, serverVars>>

\* the first loop over the contours; every cnt is deleted in its iteration
FirstPassLoop ==
    /\ pc = "firstPass"
    /\ bubbles' = FirstPass(contours, 1, opts, <<>>)
    /\ pc' = IF NeedsRelaxedPass(bubbles') THEN "relaxedPass" ELSE "classify"
    /\ trace' = Append(trace, "firstPass")
    /\ UNCHANGED <<opts, cvReady, imgComplete, height, contours, live, gray,
                   blurredFrom, claheFailed, filledBubbles, rows, questions,
                   result, failedAt>>
    /\ UNCHANGED <<peer, uploadVars, elementVars, serverVars>>

\* the second loop over the same contours, appending to bubbles
RelaxedPassLoop ==
    /\ pc = "relaxedPass"
    /\ bubbles' = RelaxedPass(contours, 1, opts, bubbles)
    /\ pc' = "classify"
    /\ trace' = Append(trace, "relaxedPass")
    /\ UNCHANGED <<opts, cvReady, imgComplete, height, contours, live, gray,
                   blurredFrom, claheFailed, filledBubbles, rows, questions,
                   result, failedAt>>
    /\ UNCHANGED <<peer, uploadVars, elementVars, serverVars>>

\* the loop over bubbles: mask, masked and tmp are deleted in each iteration
Classify ==
    /\ pc = "classify"
    /\ filledBubbles' = ClassifyAll(bubbles, opts)
    /\ pc' = "cluster"
    /\ trace' = Append(trace, "classify")
    /\ UNCHANGED <<opts, cvReady, imgComplete, height, contours, live, gray,
                   blurredFrom, claheFailed, bubbles, rows, questions, result,
                   failedAt>>
    /\ UNCHANGED <<peer, uploadVars, elementVars, serverVars>>

\* filledBubbles.sort(...) in place, then the scan that builds rows
Cluster ==
    /\ pc = "cluster"
    /\ filledBubbles' = SortYX(filledBubbles)
    /\ rows' = ClusterRows(filledBubbles', 1, RowTolerance(height), <<>>)
    /\ pc' = "select"
    /\ trace' = Append(trace, "cluster")
    /\ UNCHANGED <<opts, cvReady, imgComplete, height, contours, live, gray,
                   blurredFrom, claheFailed, bubbles, questions, result,
                   failedAt>>
    /\ UNCHANGED <<peer, uploadVars, elementVars, serverVars>>

\* the loop over rows that pushes one question per row
Select ==
    /\ pc = "select"
    /\ questions' = SelectAnswers(rows, opts)
    /\ pc' = "cleanup"
    /\ trace' = Append(trace, "select")
    /\ UNCHANGED <<opts, cvReady, imgComplete, height, contours, live, gray,
                   blurredFrom, claheFailed, bubbles, filledBubbles, rows,
                   result, failedAt>>
    /\ UNCHANGED <<peer, uploadVars, elementVars, serverVars>>

\* the objects the clean-up block deletes; gray is whatever gray refers to
CleanedUp(g) ==
    {"src", g, "blurred", "thresh", "closed", "contours", "hierarchy",
     "kernel"}

\* mutant of Cleanup: a call left with too few candidates returns nothing
CleanupDiscardsDegraded ==
    /\ pc = "cleanup"
    /\ live' = live \ CleanedUp(gray)
    /\ result' = IF Len(bubbles) < MinCandidates
                 THEN [questions |-> <<>>, bubbles |-> <<>>, returned |-> TRUE]
                 ELSE [questions |-> questions, bubbles |-> filledBubbles,
                       returned |-> TRUE]
    /\ pc' = "done"
    /\ trace' = Append(trace, "cleanup")
    /\ UNCHANGED <<opts, cvReady, imgComplete, height, contours, gray,
                   blurredFrom, claheFailed, bubbles, filledBubbles, rows,
                   questions, failedAt>>
    /\ UNCHANGED <<peer, uploadVars, elementVars, serverVars>>

\* src.delete() ... kernel.delete(); return { questions, bubbles }
Cleanup ==
    /\ pc = "cleanup"
    /\ live' = live \ CleanedUp(gray)
    /\ result' = [questions |-> questions, bubbles |-> filledBubbles,
                  returned |-> TRUE]
    /\ pc' = "done"
    /\ trace' = Append(trace, "cleanup")
    /\ UNCHANGED <<opts, cvReady, imgComplete, height, contours, gray,
                   blurredFrom, claheFailed, bubbles, filledBubbles, rows,
                   questions, failedAt>>
    /\ UNCHANGED <<peer, uploadVars, elementVars, serverVars>>

\* the steps of a stage outside any try block, and those that can be reached
StepsOf(stage) ==
    CASE stage = "imread" -> ImreadSteps
      [] stage = "blur" -> BlurSteps
      [] stage = "threshold" -> ThresholdSteps
      [] stage = "morph" -> MorphSteps
      [] stage = "findContours" -> FindContoursSteps
      [] stage \in {"firstPass", "relaxedPass"} -> PassSteps
      [] stage = "classify" -> ClassifySteps
      [] OTHER -> <<>>

ReachedSteps(stage) ==
    CASE stage = "firstPass" ->
           { k \in 1..4 :
               \E i \in 1..Len(contours) :
                  /\ k >= 3 => ~AreaRejected(contours[i].area,
                                   opts.minBubbleArea, opts.maxBubbleArea)
                  /\ k = 4 => AcceptedFirst(contours[i], opts) }
      [] stage = "relaxedPass" ->
           { k \in 1..4 :
               \E i \in 1..Len(contours) :
                  /\ k >= 3 => ~(10 * contours[i].area < 6 * opts.minBubbleArea
                                 \/ contours[i].area > 2 * opts.maxBubbleArea)
                  /\ k = 4 => AcceptedRelaxed(contours[i], opts) }
      [] stage = "classify" ->
           { k \in 1..Len(ClassifySteps) : bubbles # <<>> }
      [] OTHER -> 1..Len(StepsOf(stage))

\* a toolkit call outside the try block throws: the exception leaves
\* analyzeOmrImage (no finally), what was created so far stays allocated
Throw ==
    /\ pc \notin {"failed", "done"}
    /\ \E k \in ReachedSteps(pc) :
           live' = live \cup CreatedBefore(StepsOf(pc), k)
    /\ failedAt' = pc
    /\ pc' = "failed"
    /\ trace' = Append(trace, pc)
    /\ UNCHANGED <<opts, cvReady, imgComplete, height, contours, gray,
                   blurredFrom, claheFailed, bubbles, filledBubbles, rows,
                   questions, result>>
    /\ UNCHANGED <<peer, uploadVars, elementVars, serverVars>>

Next ==
    \/ CvLoaded
    \/ waitForCv
    \/ ImageSettles
    \/ ensureImageEl
    \/ Imread
    \/ ClaheApplied
    \/ ClaheFails
    \/ Blur
    \/ Threshold
    \/ Morph
    \/ FindContours
    \/ FirstPassLoop
    \/ RelaxedPassLoop
    \/ Classify
    \/ Cluster
    \/ Select
    \/ Cleanup
    \/ Throw

Spec == Init /\ [][Next]_vars

----------------------------------------------------------------------------
(* The stages that work on the contour list (lines 650-804), on their own: *)
(* the call is taken at the point where findContours has returned, after a *)
(* successful CLAHE, and the image height, the contour list and the        *)
(* options are drawn at that point.                                        *)

\* image heights: 1700 / 200 = 8.5, which Math.round takes to 9
SheetHeights == Heights \cup {1700}

\* y coordinates 9 apart
HalfMarks == {100, 109, 118}

\* one bubble at each of some of those marks, in a single column
HalfColumns ==
    { LET ys == SetToSeq(Y)
      IN  Reversed([i \in 1..Len(ys) |-> Good(50, ys[i], 0)]) :
        Y \in SUBSET HalfMarks }

\* a region of a given area and perimeter whose mask holds total pixels
Edge(area, perim, x, total) ==
    [area |-> area, perim |-> perim, x |-> x, y |-> 100, r |-> 18,
     total |-> total, white |-> total \div 2]

\* regions at the limits of the first pass: areas around minBubbleArea and
\* maxBubbleArea, a perimeter of zero, a circularity of exactly 0.35 and one
\* just below it (4 * 22/7 * 5390 / 440^2 = 0.35), and an empty mask
EdgeRegions ==
    { Edge(149, 40, 50, 4), Edge(150, 40, 100, 4), Edge(20000, 520, 150, 4),
      Edge(20001, 520, 200, 4), Edge(1000, 0, 250, 4),
      Edge(5390, 440, 300, 4), Edge(5390, 441, 350, 4),
      Edge(1000, 120, 400, 0) }

EdgeLists ==
    { s \in SeqsUpTo(EdgeRegions, MaxContours) :
         \A i, j \in 1..Len(s) : i # j => s[i] # s[j] }

\* the contour lists explored for an image of height h
SheetContours(h) ==
    IF h \in Heights THEN ContourLists(h) ELSE HalfColumns \cup EdgeLists

InitSheet ==
    /\ pc = "firstPass"
    /\ opts \in OptionChoices
    /\ cvReady = TRUE
    /\ imgComplete = "complete"
    /\ height \in SheetHeights
    /\ contours \in SheetContours(height)
    /\ live = (Created(ImreadSteps) \cup Created(ClaheSteps)
                 \cup Created(BlurSteps) \cup Created(ThresholdSteps)
                 \cup Created(MorphSteps) \cup Created(FindContoursSteps))
                \ {"grayMat", "clahe"}
    /\ gray = "claheDst"
    /\ blurredFrom = "enhanced"
    /\ claheFailed = FALSE
    /\ bubbles = <<>>
    /\ filledBubbles = <<>>
    /\ rows = <<>>
    /\ questions = <<>>
    /\ result = NoResult
    /\ failedAt = "none"
    /\ trace = <<"waitForCv", "ensureImageEl", "imread", "clahe", "blur",
                 "threshold", "morph", "findContours">>
    /\ peer = NoPeer
    /\ NoUpload
    /\ NoElement
    /\ NoServer

NextSheet ==
    \/ FirstPassLoop
    \/ RelaxedPassLoop
    \/ Classify
    \/ Cluster
    \/ Select
    \/ Cleanup
    \/ Throw

SpecSheet == InitSheet /\ [][NextSheet]_vars

----------------------------------------------------------------------------
(* A second call of analyzeOmrImage, on another image.  Its options, image *)
(* and everything it computes are its own (lines 588-805 declare only      *)
(* locals); it shares the toolkit's readiness with the first call.  The    *)
(* code after its last await runs to its end in one step.                  *)

\* the options of the two calls when they run side by side
PairOptionChoices ==
    { o \in OptionChoices :
         /\ o.fillThreshold = Undefined
         /\ o.expectedQuestions = Undefined
         /\ o.expectedOptions \in {Undefined, Some(2)} }

\* what the toolkit can report for the second call's image
PeerContourLists ==
    { <<>>,
      <<Good(50, 100, 2)>>,
      <<Good(50, 100, 2), Good(100, 104, 1)>>,
      <<Good(50, 140, 2), Good(50, 100, 1)>> }

\* the first call is suspended at an await, or over: another callback can run
MainSuspended == pc \in {"waitForCv", "ensureImageEl", "done", "failed"}

InitPair ==
    /\ CallStarts
    /\ opts \in PairOptionChoices
    /\ peer \in [pc : {"waitForCv"}, opts : PairOptionChoices,
                 img : {"loading", "complete", "empty"}, height : {0},
                 contours : {<<>>}, result : {NoResult},
                 failedAt : {"none"}, sawMain : {"none"}]
    /\ NoUpload
    /\ NoElement
    /\ NoServer

\* the second call's await waitForCv() resolves
PeerWaitForCv ==
    /\ peer.pc = "waitForCv"
    /\ cvReady
    /\ MainSuspended
    /\ peer' = [peer EXCEPT !.pc = "ensureImageEl"]
    /\ UNCHANGED <<callVars, uploadVars, elementVars, serverVars>>

\* the browser finishes loading the second call's image, or fails to
PeerImageSettles ==
    /\ peer.pc # "absent"
    /\ peer.img = "loading"
    /\ \E i \in {"complete", "empty", "error"} :
          peer' = [peer EXCEPT !.img = i]
    /\ UNCHANGED <<callVars, uploadVars, elementVars, serverVars>>

\* the second call's await ensureImageEl(...) resolves or rejects
PeerEnsureImageEl ==
    /\ peer.pc = "ensureImageEl"
    /\ peer.img # "loading"
    /\ MainSuspended
    /\ peer' = IF peer.img \in {"complete", "empty"}
               THEN [peer EXCEPT !.pc = "analyze"]
               ELSE [peer EXCEPT !.pc = "failed",
                                 !.failedAt = "ensureImageEl",
                                 !.sawMain = pc]
    /\ UNCHANGED <<callVars, uploadVars, elementVars, serverVars>>

\* mutant of PeerAnalyze: the result object is shared by the calls
PeerAnalyzeShared ==
    /\ peer.pc = "analyze"
    /\ MainSuspended
    /\ \/ /\ peer.img = "complete"
          /\ \E h \in Heights : \E cs \in PeerContourLists :
                /\ peer' = [peer EXCEPT !.pc = "done", !.height = h,
                                        !.contours = cs,
                                        !.result = Analyze(cs, h, peer.opts),
                                        !.sawMain = pc]
                /\ result' = Analyze(cs, h, peer.opts)
       \/ /\ peer' = [peer EXCEPT !.pc = "failed", !.failedAt = "analyze",
                                   !.sawMain = pc]
          /\ UNCHANGED result
    /\ UNCHANGED <<pc, opts, cvReady, imgComplete, height, contours, live,
                   gray, blurredFrom, claheFailed, bubbles, filledBubbles,
                   rows, questions, failedAt, trace, uploadVars, elementVars,
                   serverVars>>

\* lines 600-805 of the second call, from the canvas to the return: it
\* returns what its own image and options give, or a toolkit call throws
\* (always, for an image of size zero)
PeerAnalyze ==
    /\ peer.pc = "analyze"
    /\ MainSuspended
    /\ \/ /\ peer.img = "complete"
          /\ \E h \in Heights : \E cs \in PeerContourLists :
                peer' = [peer EXCEPT !.pc = "done", !.height = h,
                                    !.contours = cs,
                                    !.result = Analyze(cs, h, peer.opts),
                                    !.sawMain = pc]
       \/ peer' = [peer EXCEPT !.pc = "failed", !.failedAt = "analyze",
                               !.sawMain = pc]
    /\ UNCHANGED <<callVars, uploadVars, elementVars, serverVars>>

NextPair ==
    \/ CvLoaded
    \/ waitForCv
    \/ ImageSettles
    \/ ensureImageEl
    \/ Imread
    \/ ClaheApplied
    \/ ClaheFails
    \/ Blur
    \/ Threshold
    \/ Morph
    \/ FindContours
    \/ FirstPassLoop
    \/ RelaxedPassLoop
    \/ Classify
    \/ Cluster
    \/ Select
    \/ Cleanup
    \/ Throw
    \/ PeerWaitForCv
    \/ PeerImageSettles
    \/ PeerEnsureImageEl
    \/ PeerAnalyze

SpecPair == InitPair /\ [][NextPair]_vars

----------------------------------------------------------------------------
(* The upload path *)

\* 10 * 1024 * 1024, the size limit of the form and of the server
ClientMaxFileSize == 10485760
ServerMaxFileSize == 10485760

\* the media types of the files a user can pick or drop (File.type is in
\* lower case)
FileTypes ==
    {"image/jpeg", "image/png", "image/heic", "image/gif", "application/pdf"}

\* file.type.startsWith('image/') on those types
StartsWithImage(t) == t \in FileTypes \ {"application/pdf"}

\* file sizes in bytes: 1 MB, exactly the limit, one byte more
FileSizes == {1048576, 10485760, 10485761}

\* the items of the exam version select, and a date of the date input
ExamVersions == {"A", "B", "C", "D"}
ExamDates == {"2024-05-01"}

\* validTypes of validateFile and of validateImage
ClientValidTypes == {"image/jpeg", "image/jpg", "image/png", "image/heic"}
ServerValidTypes == {"image/jpeg", "image/jpg", "image/png"}

\* validateFile of the form: its errors and the valid flag
ClientErrors(f) ==
    (IF f.size > ClientMaxFileSize
     THEN {"File size exceeds 10MB limit"} ELSE {})
    \cup (IF f.type \notin ClientValidTypes
          THEN {"Invalid file type. Only JPEG, PNG, and HEIC files are allowed"}
          ELSE {})

validateFile(f) ==
    [type |-> f.type, size |-> f.size, valid |-> ClientErrors(f) = {}]

\* validateImage of the server
ServerErrors(f) ==
    (IF f.size > ServerMaxFileSize
     THEN {"File size exceeds 10MB limit"} ELSE {})
    \cup (IF f.type \notin ServerValidTypes
          THEN {"Invalid file type. Only JPEG and PNG files are allowed"}
          ELSE {})

validateImage(f) == [valid |-> ServerErrors(f) = {}, errors |-> ServerErrors(f)]

\* the responses the upload-sheet route can give to a request
RouteResponses(req) ==
    IF req.examVersion = "" \/ req.examDate = ""
    THEN {[status |-> 400, error |-> "Missing required fields"]}
    ELSE IF req.examVersion \notin ExamVersions
    THEN {[status |-> 400, error |-> "Invalid exam version"]}
    ELSE IF ~validateImage(req).valid
    THEN {[status |-> 400, error |-> "Image validation failed"]}
    ELSE {[status |-> 500, error |-> "Failed to upload file to storage"],
          [status |-> 500, error |-> "Internal server error during upload"],
          [status |-> 200, error |-> ""]}

\* the members of s that satisfy valid, in order
RECURSIVE ValidFiles(_)
ValidFiles(s) ==
    IF s = <<>> THEN <<>>
    ELSE IF Head(s).valid THEN <<Head(s)>> \o ValidFiles(Tail(s))
    ELSE ValidFiles(Tail(s))

\* the form is mounted and analyzeOmrImage is not called: nothing in the
\* repository calls it
InitUpload ==
    /\ pc = "notCalled"
    /\ opts \in { o \in OptionChoices :
                     /\ o.fillThreshold = Undefined
                     /\ o.expectedOptions = Undefined
                     /\ o.expectedQuestions = Undefined }
    /\ cvReady = FALSE
    /\ imgComplete = "loading"
    /\ height = 0
    /\ contours = <<>>
    /\ live = {}
    /\ gray = "none"
    /\ blurredFrom = "none"
    /\ claheFailed = FALSE
    /\ bubbles = <<>>
    /\ filledBubbles = <<>>
    /\ rows = <<>>
    /\ questions = <<>>
    /\ result = NoResult
    /\ failedAt = "none"
    /\ trace = <<>>
    /\ peer = NoPeer
    /\ NoUpload
    /\ NoElement
    /\ NoServer

\* handleFileSelect / handleDrop with one file: the filter on the type, then
\* validateFiles appends its validation result to selectedFiles
SelectFile ==
    /\ ~uploading
    /\ Len(selectedFiles) < MaxFiles
    /\ \E t \in FileTypes : \E sz \in FileSizes :
          selectedFiles' =
             IF StartsWithImage(t)
             THEN Append(selectedFiles, validateFile([type |-> t, size |-> sz]))
             ELSE selectedFiles
    /\ UNCHANGED <<examVersion, examDate, uploading, pending, responses,
                   jobs, callVars, peer,
                   elementVars, serverVars>>

\* removeFile(index)
RemoveFile ==
    /\ ~uploading
    /\ \E i \in 1..Len(selectedFiles) :
          selectedFiles' =
             [k \in 1..(Len(selectedFiles) - 1) |->
                 IF k < i THEN selectedFiles[k] ELSE selectedFiles[k + 1]]
    /\ UNCHANGED <<examVersion, examDate, uploading, pending, responses,
                   jobs, callVars, peer,
                   elementVars, serverVars>>

\* the exam version select
SetExamVersion ==
    /\ ~uploading
    /\ examVersion' \in ExamVersions
    /\ UNCHANGED <<selectedFiles, examDate, uploading, pending, responses,
                   jobs, callVars, peer,
                   elementVars, serverVars>>

\* the exam date input
SetExamDate ==
    /\ ~uploading
    /\ examDate' \in ExamDates
    /\ UNCHANGED <<selectedFiles, examVersion, uploading, pending, responses,
                   jobs, callVars, peer,
                   elementVars, serverVars>>

\* handleUpload: the valid files are handed to handleFileUpload, which posts
\* them one by one with the exam version and date
HandleUpload ==
    /\ Len(ValidFiles(selectedFiles)) > 0
    /\ examVersion # ""
    /\ examDate # ""
    /\ ~uploading
    /\ jobs + Len(ValidFiles(selectedFiles)) <= MaxJobs
    /\ uploading' = TRUE
    /\ pending' =
          [i \in 1..Len(ValidFiles(selectedFiles)) |->
              [type |-> ValidFiles(selectedFiles)[i].type,
               size |-> ValidFiles(selectedFiles)[i].size,
               examVersion |-> examVersion, examDate |-> examDate]]
    /\ responses' = <<>>
    /\ UNCHANGED <<selectedFiles, examVersion, examDate, jobs, callVars, peer,
                   elementVars, serverVars>>

\* the job record of the upload-sheet route for upload u
QueuedJob(jobId, u) ==
    [id |-> jobId, upload |-> u, status |-> "queued", progress |-> 0]

\* processOMRSheet(fileName, examVersion, jobId) as it starts: its first
\* updateProgress has not read the job record yet
StartedTask(jobId, u) ==
    [upload |-> u, jobId |-> jobId, pc |-> "progress20", got |-> FALSE,
     currentJob |-> <<>>, studentId |-> 0]

\* jobId = `job-${Date.now()}`: the clock's reading stands for the id
JobId(now) == now

\* one turn of the loop of handleFileUpload: the request reaches the
\* upload-sheet route, which answers it; for an accepted upload it writes
\* the job record under the key of its jobId, whatever is there, and starts
\* the processing in the background
UploadSheet ==
    /\ uploading
    /\ pending # <<>>
    /\ \E r \in RouteResponses(Head(pending)) :
          /\ responses' = Append(responses,
                              [request |-> Head(pending),
                               status |-> r.status, error |-> r.error])
          /\ IF r.status = 200
             THEN LET jobId == JobId(clock)
                  IN  /\ jobs' = jobs + 1
                      /\ kv' = [kv EXCEPT !.processing =
                                   (jobId :> QueuedJob(jobId, jobs + 1)) @@ @]
                      /\ tasks' = Append(tasks, StartedTask(jobId, jobs + 1))
             ELSE UNCHANGED <<jobs, kv, tasks>>
    /\ pending' = Tail(pending)
    /\ UNCHANGED <<selectedFiles, examVersion, examDate, uploading, clock,
                   callVars, peer, elementVars>>

\* onFileUpload has returned: the form is reset
UploadFinished ==
    /\ uploading
    /\ pending = <<>>
    /\ selectedFiles' = <<>>
    /\ examVersion' = ""
    /\ examDate' = ""
    /\ uploading' = FALSE
    /\ responses' = <<>>
    /\ UNCHANGED <<pending, jobs, callVars, peer,
                   elementVars, serverVars>>

NextUpload ==
    \/ SelectFile
    \/ RemoveFile
    \/ SetExamVersion
    \/ SetExamDate
    \/ HandleUpload
    \/ UploadSheet
    \/ UploadFinished

SpecUpload == InitUpload /\ [][NextUpload]_vars

----------------------------------------------------------------------------
(* The server after requests have been posted: the upload-sheet route, the *)
(* clock, and the background processing of the accepted uploads.  The      *)
(* writes of the completion callback can fail, as can bubble detection.    *)

\* a request the route accepts and one it rejects
Requests ==
    [type : {"image/jpeg", "image/gif"}, size : {1048576},
     examVersion : {"A"}, examDate : ExamDates]

\* the student number processOMRSheet draws for a result
StudentIds == 1..MaxStudents

InitServer ==
    /\ pc = "notCalled"
    /\ opts \in { o \in OptionChoices :
                     /\ o.fillThreshold = Undefined
                     /\ o.expectedOptions = Undefined
                     /\ o.expectedQuestions = Undefined }
    /\ cvReady = FALSE
    /\ imgComplete = "loading"
    /\ height = 0
    /\ contours = <<>>
    /\ live = {}
    /\ gray = "none"
    /\ blurredFrom = "none"
    /\ claheFailed = FALSE
    /\ bubbles = <<>>
    /\ filledBubbles = <<>>
    /\ rows = <<>>
    /\ questions = <<>>
    /\ result = NoResult
    /\ failedAt = "none"
    /\ trace = <<>>
    /\ peer = NoPeer
    /\ NoElement
    /\ NoServer
    /\ selectedFiles = <<>>
    /\ examVersion = ""
    /\ examDate = ""
    /\ uploading = TRUE
    /\ pending \in SeqsUpTo(Requests, MaxJobs) \ {<<>>}
    /\ responses = <<>>
    /\ jobs = 0

\* a millisecond passes
Tick ==
    /\ clock < MaxClock
    /\ clock' = clock + 1
    /\ UNCHANGED <<kv, tasks, callVars, peer, uploadVars, elementVars>>

\* the steps of processOMRSheet that call updateProgress, and the progress
\* each writes
ProgressSteps ==
    {"progress20", "progress50", "progress80", "progress100", "progress0"}

ProgressOf(step) ==
    CASE step = "progress20" -> 20
      [] step = "progress50" -> 50
      [] step = "progress80" -> 80
      [] step = "progress100" -> 100
      [] OTHER -> 0

\* what follows an updateProgress: preprocessImage always succeeds,
\* detectBubbles succeeds or not, and the catch block rethrows
StepsAfter(step) ==
    CASE step = "progress20" -> {"progress50"}
      [] step = "progress50" -> {"progress80", "progress0"}
      [] step = "progress80" -> {"progress100"}
      [] step = "progress100" -> {"completed"}
      [] OTHER -> {"error"}

\* updateProgress: currentJob = await kv.get(`processing:${jobId}`)
UpdateProgressGet(t) ==
    /\ tasks[t].pc \in ProgressSteps
    /\ ~tasks[t].got
    /\ tasks' = [tasks EXCEPT
                    ![t].got = TRUE,
                    ![t].currentJob =
                        IF tasks[t].jobId \in DOMAIN kv.processing
                        THEN <<kv.processing[tasks[t].jobId]>> ELSE <<>>]
    /\ UNCHANGED <<clock, kv, callVars, peer, uploadVars, elementVars>>

\* updateProgress: if (currentJob) await kv.set(key, {...currentJob,
\* progress, currentStep}); then processOMRSheet goes on to its next step,
\* drawing the student number when it returns its result
UpdateProgressSet(t) ==
    /\ tasks[t].pc \in ProgressSteps
    /\ tasks[t].got
    /\ kv' = IF tasks[t].currentJob = <<>> THEN kv
             ELSE [kv EXCEPT !.processing =
                      (tasks[t].jobId :>
                          [tasks[t].currentJob[1] EXCEPT
                              !.progress = ProgressOf(tasks[t].pc)]) @@ @]
    /\ \E next \in StepsAfter(tasks[t].pc) :
       \E sid \in IF next = "completed" THEN StudentIds ELSE {0} :
          tasks' = [tasks EXCEPT ![t].pc = next, ![t].got = FALSE,
                                 ![t].currentJob = <<>>,
                                 ![t].studentId = sid]
    /\ UNCHANGED <<clock, callVars, peer, uploadVars, elementVars>>

\* the then-callback's first write: the job record with status 'completed'
\* (built from the callback's own upload, not from the stored record); if
\* the write fails the catch-callback runs
JobCompleted(t) ==
    /\ tasks[t].pc = "completed"
    /\ \/ /\ kv' = [kv EXCEPT !.processing =
                        (tasks[t].jobId :>
                            [id |-> tasks[t].jobId,
                             upload |-> tasks[t].upload,
                             status |-> "completed", progress |-> 100]) @@ @]
          /\ tasks' = [tasks EXCEPT ![t].pc = "result"]
       \/ /\ tasks' = [tasks EXCEPT ![t].pc = "error"]
          /\ UNCHANGED kv
    /\ UNCHANGED <<clock, callVars, peer, uploadVars, elementVars>>

\* the then-callback's second write: kv.set(`result:${studentId}`, result);
\* if it fails the catch-callback runs
ResultStored(t) ==
    /\ tasks[t].pc = "result"
    /\ \/ /\ kv' = [kv EXCEPT !.results =
                        (tasks[t].studentId :> tasks[t].upload) @@ @]
          /\ tasks' = [tasks EXCEPT ![t].pc = "finished"]
       \/ /\ tasks' = [tasks EXCEPT ![t].pc = "error"]
          /\ UNCHANGED kv
    /\ UNCHANGED <<clock, callVars, peer, uploadVars, elementVars>>

\* the catch-callback: the job record with status 'error'
JobFailed(t) ==
    /\ tasks[t].pc = "error"
    /\ kv' = [kv EXCEPT !.processing =
                 (tasks[t].jobId :>
                     [id |-> tasks[t].jobId, upload |-> tasks[t].upload,
                      status |-> "error", progress |-> 0]) @@ @]
    /\ tasks' = [tasks EXCEPT ![t].pc = "finished"]
    /\ UNCHANGED <<clock, callVars, peer, uploadVars, elementVars>>

NextServer ==
    \/ UploadSheet
    \/ Tick
    \/ \E t \in DOMAIN tasks : UpdateProgressGet(t)
    \/ \E t \in DOMAIN tasks : UpdateProgressSet(t)
    \/ \E t \in DOMAIN tasks : JobCompleted(t)
    \/ \E t \in DOMAIN tasks : ResultStored(t)
    \/ \E t \in DOMAIN tasks : JobFailed(t)

SpecServer == InitServer /\ [][NextServer]_vars

----------------------------------------------------------------------------
(* Calls of analyzeOmrImage on one and the same image element.  The        *)
(* element has a single onload and a single onerror slot; ensureImageEl    *)
(* assigns to both when the element is not complete.                       *)

CallIds == 1..MaxCalls

InitShared ==
    /\ pc = "notCalled"
    /\ opts \in { o \in OptionChoices :
                     /\ o.fillThreshold = Undefined
                     /\ o.expectedOptions = Undefined
                     /\ o.expectedQuestions = Undefined }
    /\ cvReady \in BOOLEAN
    /\ imgComplete = "loading"
    /\ height = 0
    /\ contours = <<>>
    /\ live = {}
    /\ gray = "none"
    /\ blurredFrom = "none"
    /\ claheFailed = FALSE
    /\ bubbles = <<>>
    /\ filledBubbles = <<>>
    /\ rows = <<>>
    /\ questions = <<>>
    /\ result = NoResult
    /\ failedAt = "none"
    /\ trace = <<>>
    /\ peer = NoPeer
    /\ NoUpload
    /\ calls = [c \in CallIds |-> "notCalled"]
    /\ element \in {"loading", "complete"}
    /\ handlers = NoHandlers
    /\ NoServer

\* analyzeOmrImage(img) is called: it runs to await waitForCv()
AnalyzeCalled(c) ==
    /\ calls[c] = "notCalled"
    /\ calls' = [calls EXCEPT ![c] = "waitForCv"]
    /\ UNCHANGED <<element, handlers, callVars, peer, uploadVars,
                   serverVars>>

\* waitForCv() has resolved; the call builds its options and runs
\* ensureImageEl(input): input.complete resolves at once, else the call's
\* resolve and reject are assigned to input.onload and input.onerror
EnsureImageElCalled(c) ==
    /\ calls[c] = "waitForCv"
    /\ cvReady
    /\ IF element # "loading"
       THEN calls' = [calls EXCEPT ![c] = "analyze"] /\ UNCHANGED handlers
       ELSE /\ calls' = [calls EXCEPT ![c] = "awaitLoad"]
            /\ handlers' = [onload |-> c, onerror |-> c]
    /\ UNCHANGED <<element, callVars, peer, uploadVars, serverVars>>

\* the image finishes loading: complete is set and the load event runs the
\* function in the onload slot, if any
ElementLoads ==
    /\ element = "loading"
    /\ element' = "complete"
    /\ calls' = [c \in DOMAIN calls |->
                    IF c = handlers.onload /\ calls[c] = "awaitLoad"
                    THEN "analyze" ELSE calls[c]]
    /\ UNCHANGED <<handlers, callVars, peer, uploadVars, serverVars>>

\* the image fails to load: the error event runs the function in the
\* onerror slot, if any; complete is true of a broken image too
ElementFails ==
    /\ element = "loading"
    /\ element' = "broken"
    /\ calls' = [c \in DOMAIN calls |->
                    IF c = handlers.onerror /\ calls[c] = "awaitLoad"
                    THEN "failed" ELSE calls[c]]
    /\ UNCHANGED <<handlers, callVars, peer, uploadVars, serverVars>>

\* lines 600-805 of a call whose image promise has resolved: it returns, or
\* a toolkit call throws (always, for a broken image, which has no pixels)
AnalysisRuns(c) ==
    /\ calls[c] = "analyze"
    /\ \/ element = "complete" /\ calls' = [calls EXCEPT ![c] = "done"]
       \/ calls' = [calls EXCEPT ![c] = "failed"]
    /\ UNCHANGED <<element, handlers, callVars, peer, uploadVars,
                   serverVars>>

NextShared ==
    \/ CvLoaded
    \/ \E c \in CallIds : AnalyzeCalled(c)
    \/ \E c \in CallIds : EnsureImageElCalled(c)
    \/ ElementLoads
    \/ ElementFails
    \/ \E c \in CallIds : AnalysisRuns(c)

\* the toolkit's poll, the event loop and the browser's loader keep running;
\* nothing obliges a caller to call, or the load to fail
SpecShared ==
    /\ InitShared
    /\ [][NextShared]_vars
    /\ WF_vars(CvLoaded)
    /\ WF_vars(ElementLoads)
    /\ \A c \in CallIds : WF_vars(EnsureImageElCalled(c))
    /\ \A c \in CallIds : WF_vars(AnalysisRuns(c))

----------------------------------------------------------------------------
(* Vocabulary of the properties *)

\* the call has run the answer selection to its end
Selection == pc \in {"cleanup", "done"}

Returned == pc = "done" /\ result.returned

\* positions (q-1)*m+1 .. q*m of a list: the q-th run of m elements
Chunk(q, m) == ((q - 1) * m + 1)..(q * m)

\* the list bs, sorted by (y, x), forms n rows of m bubbles: the members of a
\* row lie within tol of each other at distinct x, and every bubble of the
\* next row lies more than tol below every bubble of the row
FormsRows(bs, n, m, tol) ==
    /\ Len(bs) = n * m
    /\ \A q \in 1..n :
         /\ \A i, j \in Chunk(q, m) :
              /\ Abs(bs[i].y - bs[j].y) <= tol
              /\ i # j => bs[i].x # bs[j].x
         /\ q < n => \A i \in Chunk(q, m), j \in Chunk(q + 1, m) :
                        bs[j].y - bs[i].y > tol

\* the positions of row q whose fill ratio reaches the threshold
FilledIn(bs, q, m, thr) ==
    { i \in Chunk(q, m) : RatGE(bs[i].filledRatio, thr) }

\* the 0-based left-to-right index of bubble i within row q
LeftToRight(bs, q, m, i) ==
    Cardinality({ j \in Chunk(q, m) : bs[j].x < bs[i].x })

\* the number of bubbles of a row left of bubble b
RankX(row, b) == Cardinality({ k \in 1..Len(row) : row[k].x < b.x })

\* the fill ratio of the bubble of a row that has k bubbles to its left
RatioAtRank(row, k) ==
    (CHOOSE b \in { row[i] : i \in 1..Len(row) } : RankX(row, b) = k).filledRatio

DistinctX(row) ==
    \A i, j \in 1..Len(row) : i # j => row[i].x # row[j].x

\* s is a largest score of the sequence
IsMaximum(scores, s) ==
    /\ \E i \in 1..Len(scores) : scores[i] = s
    /\ \A i \in 1..Len(scores) : RatGE(s, scores[i])

----------------------------------------------------------------------------
(* C1: when the classified bubbles form N rows of M bubbles, one bubble per *)
(* row at or above fillThreshold and the others below it, a call with      *)
(* expectedOptions = M returns N questions indexed 1..N top to bottom, each *)
(* selecting the left-to-right index of the filled bubble of its row.      *)

KnownIndexPremise(n, m) ==
    /\ FormsRows(result.bubbles, n, m, RowTolerance(height))
    /\ \A q \in 1..n :
          Cardinality(FilledIn(result.bubbles, q, m, FillThreshold(opts))) = 1
    /\ opts.expectedOptions = Some(m)

KnownIndex(q, m) ==
    LeftToRight(result.bubbles, q, m,
        CHOOSE i \in FilledIn(result.bubbles, q, m, FillThreshold(opts)) : TRUE)

C1_KnownIndexSelected ==
    Returned =>
      \A n \in 1..Len(result.bubbles), m \in 1..Len(result.bubbles) :
         KnownIndexPremise(n, m) =>
            /\ Len(result.questions) = n
            /\ \A q \in 1..n :
                 /\ result.questions[q].index = q
                 /\ result.questions[q].selected = Some(KnownIndex(q, m))

\* two rows of three or more bubbles, out of x order in the sorted list,
\* with different answers
C1_Witness ==
    /\ Returned
    /\ \E n \in 2..Len(result.bubbles), m \in 3..Len(result.bubbles) :
         /\ KnownIndexPremise(n, m)
         /\ KnownIndex(1, m) # KnownIndex(2, m)
         /\ result.bubbles[1].x > result.bubbles[2].x
         /\ result.questions[2].selected = Some(KnownIndex(2, m))

(* C2: when several options share the maximal score of a question and an   *)
(* option is selected, it is the lowest index among those maxima.          *)

C2_LowestIndexWinsTies ==
    Selection =>
      \A q \in 1..Len(questions) :
         questions[q].selected # Undefined =>
            \A j \in 1..Len(questions[q].scores) :
               IsMaximum(questions[q].scores, questions[q].scores[j])
                  => questions[q].selected[1] <= j - 1

\* a question whose maximal score occurs twice, not at the first option
C2_Witness ==
    /\ Returned
    /\ \E q \in 1..Len(questions) :
         LET sc == questions[q].scores
         IN  /\ questions[q].selected # Undefined
             /\ questions[q].selected[1] > 0
             /\ \E j \in 1..Len(sc) :
                  /\ j - 1 > questions[q].selected[1]
                  /\ IsMaximum(sc, sc[j])

(* C3: a question's selected option is non-null exactly when the maximum   *)
(* of its scores is at least fillThreshold; when non-null it is an index   *)
(* of the scores whose score is that maximum.                              *)

----------------------------------------------------------------------------
\* the y coordinates of the returned bubbles
ReturnedYs == { result.bubbles[i].y : i \in 1..Len(result.bubbles) }

\* the row that holds a bubble at y, and whether a bubble at y opens its row
RowOfY(y) == CHOOSE q \in 1..Len(rows) : \E i \in 1..Len(rows[q]) : rows[q][i].y = y

OpensRow(y) == rows[RowOfY(y)][1].y = y

(* C5, as stated: on an image of height 2000 with bubbles at y = 100, 109  *)
(* and 111, those at 100 and 109 share a row and the one at 111 starts a   *)
(* new row.                                                                *)

C5_Original ==
    (Returned /\ height = 2000 /\ ReturnedYs = {100, 109, 111}) =>
       /\ RowOfY(100) = RowOfY(109)
       /\ OpensRow(111)

(* C5, amended: on an image of height 2000 (rowTolerance 10) whose bubbles *)
(* lie at y = 100 and 109 only, both share one row; when they lie at 100   *)
(* and 111 only, the bubble at 111 starts a new row (11 > 10); when they   *)
(* lie at 100, 109 and 111, the bubble at 111 joins the row of the other   *)
(* two, being 6.5 from their mean 104.5.                                   *)

C5_RowToleranceScenario ==
    (Returned /\ height = 2000) =>
       /\ RowTolerance(height) = 10
       /\ ReturnedYs = {100, 109} => Len(rows) = 1
       /\ ReturnedYs = {100, 111} =>
             /\ Len(rows) = 2
             /\ OpensRow(111)
       /\ ReturnedYs = {100, 109, 111} =>
             /\ Len(rows) = 1
             /\ ~OpensRow(111)

\* the three bubbles of the scenario in one row
C5_Witness ==
    /\ Returned
    /\ height = 2000
    /\ ReturnedYs = {100, 109, 111}
    /\ Len(rows) = 1
    /\ Len(rows[1]) = 3

(* C6: when the caller passes expectedOptions = E, every question returned *)
(* has exactly E scores, whether its row held more than E, exactly E or    *)
(* fewer than E bubbles.                                                   *)

C6_UniformOptionCounts ==
    (Returned /\ ExpectedOptions(opts) >= 1) =>
       \A q \in 1..Len(result.questions) :
          Len(result.questions[q].scores) = ExpectedOptions(opts)

(* C7: when no region survives either extraction pass, the call completes  *)
(* and returns empty bubbles and questions; no later stage fails.          *)

NoCandidates ==
    /\ bubbles = <<>>
    /\ \/ pc \in {"classify", "cluster", "select", "cleanup", "done"}
       \/ pc = "failed" /\ failedAt \in {"classify", "cluster", "select",
                                          "cleanup"}

C7_ZeroCandidatesEmptyResult ==
    NoCandidates =>
       /\ pc # "failed"
       /\ filledBubbles = <<>> /\ rows = <<>> /\ questions = <<>>
       /\ pc = "done" =>
             /\ result.returned
             /\ result.bubbles = <<>>
             /\ result.questions = <<>>

\* a call returned for an image with regions, none of which was accepted
C7_Witness ==
    /\ Returned
    /\ contours # <<>>
    /\ bubbles = <<>>
    /\ "relaxedPass" \in { trace[i] : i \in 1..Len(trace) }
    /\ result.bubbles = <<>>
    /\ result.questions = <<>>

----------------------------------------------------------------------------
\* the stages run so far, and the position of a stage in program order
Ran(stage) == \E i \in 1..Len(trace) : trace[i] = stage

StagePos(stage) == CHOOSE k \in 1..Len(Stages) : Stages[k] = stage

\* the number of regions that meet the first pass's area and circularity test
FirstPassCount ==
    Cardinality({ i \in 1..Len(contours) : AcceptedFirst(contours[i], opts) })

FirstPassDone == Ran("firstPass") /\ failedAt # "firstPass"

(* C8: a call is one linear pass: the stages run in program order, each at *)
(* most once and none skipped, except that the relaxed pass runs exactly   *)
(* when the first pass accepted fewer than 10 candidates, and then once,   *)
(* however few candidates there are after it.                              *)

C8_LinearPassSingleRetry ==
    /\ \A i \in 1..(Len(trace) - 1) :
          \/ trace[i + 1] = Stages[StagePos(trace[i]) + 1]
          \/ trace[i] = "firstPass" /\ trace[i + 1] = "classify"
    /\ Len(trace) > 0 => trace[1] = "waitForCv"
    /\ (pc \notin {"done", "failed"} /\ Len(trace) > 0) =>
          \/ pc = Stages[StagePos(trace[Len(trace)]) + 1]
          \/ trace[Len(trace)] = "firstPass" /\ pc = "classify"
    /\ FirstPassDone =>
          ((pc = "relaxedPass" \/ Ran("relaxedPass"))
              <=> FirstPassCount < MinCandidates)
    /\ pc = "done" => Ran("classify") /\ Ran("cluster") /\ Ran("select")

\* a call that made the relaxed pass, still has fewer than 10 candidates
\* after it, and went on to return
C8_Witness ==
    /\ Returned
    /\ Ran("relaxedPass")
    /\ Len(bubbles) > FirstPassCount
    /\ Len(bubbles) < MinCandidates
    /\ Len(trace) = Len(Stages)

\* a call whose first pass found exactly 10 candidates and skipped the
\* relaxed pass
C8_SkipWitness ==
    /\ Returned
    /\ FirstPassCount = MinCandidates
    /\ ~Ran("relaxedPass")

(* C9: when a step of the contrast enhancement throws, the call does not   *)
(* abort there: smoothing and the later stages work on the unenhanced      *)
(* grayscale image, which is still allocated, and the call can return.     *)

C9_ClaheFailureFallsBack ==
    /\ failedAt # "clahe"
    /\ claheFailed =>
          /\ gray = "grayMat"
          /\ Ran("clahe")
          /\ pc \in {"blur", "threshold", "morph", "findContours", "firstPass",
                     "relaxedPass", "classify", "cluster", "select", "cleanup"}
                => "grayMat" \in live
          /\ blurredFrom # "none" => blurredFrom = "plain"
          /\ pc = "done" => result.returned /\ Ran("blur") /\ Ran("select")

\* a call returned answers after the enhancement threw with its output
\* already allocated
C9_Witness ==
    /\ Returned
    /\ claheFailed
    /\ "claheDst" \in live
    /\ blurredFrom = "plain"
    /\ \E q \in 1..Len(result.questions) :
          result.questions[q].selected # Undefined

(* C10: every native object created during a call has been released when   *)
(* the call exits, by return or by failure.                                *)

C10_AllBuffersReleased ==
    pc \in {"done", "failed"} => live = {}

----------------------------------------------------------------------------
\* the sum of the y of the first k members of a row
PrefixSumY(row, k) == SumY(row, k)

\* member i of the row lies within tol of the mean y of its first k members
WithinOfMean(row, i, k, tol) ==
    Abs(row[i].y * k - PrefixSumY(row, k)) <= tol * k

(* C11, as stated: every member of a row lies within rowTolerance of the   *)
(* mean y of all the members the completed row holds.                      *)

C11_Original ==
    Selection =>
      \A q \in 1..Len(rows) : \A i \in 1..Len(rows[q]) :
         WithinOfMean(rows[q], i, Len(rows[q]), RowTolerance(height))

(* C11, amended: every member of a row but its first lies within           *)
(* rowTolerance of the mean y of the members that precede it in the row    *)
(* (the running mean at the moment it joined), and the first member of a   *)
(* later row lies farther than rowTolerance from the mean of the whole row *)
(* before it; a member may be farther than rowTolerance from the mean of   *)
(* its completed row.                                                      *)

C11_WithinRunningMeanAtJoin ==
    Selection =>
      \A q \in 1..Len(rows) :
         /\ \A i \in 2..Len(rows[q]) :
               WithinOfMean(rows[q], i, i - 1, RowTolerance(height))
         /\ q > 1 =>
               Abs(rows[q][1].y * Len(rows[q - 1])
                     - PrefixSumY(rows[q - 1], Len(rows[q - 1])))
                  > RowTolerance(height) * Len(rows[q - 1])

\* a returned row whose first member ended up farther than the tolerance
\* from the mean of the completed row
C11_Witness ==
    /\ Returned
    /\ \E q \in 1..Len(rows) :
         /\ Len(rows[q]) >= 4
         /\ ~WithinOfMean(rows[q], 1, Len(rows[q]), RowTolerance(height))

----------------------------------------------------------------------------
(* C12: questions are numbered 1..N in output order, one per row, and the  *)
(* rows run top to bottom: no member of a row lies below a member of a     *)
(* later row.                                                              *)

C12_QuestionsNumberedTopToBottom ==
    Selection =>
      /\ Len(questions) = Len(rows)
      /\ \A q \in 1..Len(questions) : questions[q].index = q
      /\ \A q, p \in 1..Len(rows) :
            q < p => \A i \in 1..Len(rows[q]), j \in 1..Len(rows[p]) :
                        rows[q][i].y <= rows[p][j].y

\* two questions returned for regions the toolkit listed bottom-up
C12_Witness ==
    /\ Returned
    /\ Len(result.questions) >= 2
    /\ result.questions[2].index = 2
    /\ Len(contours) >= 2
    /\ contours[1].y > contours[Len(contours)].y
    /\ rows[1][1].y < rows[2][1].y

----------------------------------------------------------------------------
\* thresholds (in percent) a second call on the same image is given
RaisedThresholds == {38, 51, 100}

\* what the call returns for the same candidates under fillThreshold t
WithThreshold(t) ==
    AnalyzeCandidates(bubbles, height, [opts EXCEPT !.fillThreshold = Some(t)])

\* the contour indexes of the members of each row
RowMembers(rs) ==
    [q \in 1..Len(rs) |-> [i \in 1..Len(rs[q]) |-> rs[q][i].contourIndex]]

\* the score of the option a question selects
SelectedScore(qn) == qn.scores[qn.selected[1] + 1]

(* C13: for the same candidates, an option selected under one fillThreshold *)
(* is no longer selected once fillThreshold is raised above its score;     *)
(* fill ratios, row membership and scores are the same under both.         *)

C13_RaisedThresholdDeselects ==
    Returned =>
      \A t \in RaisedThresholds :
         LET again == WithThreshold(t)
         IN  /\ RowMembers(again.rows) = RowMembers(rows)
             /\ Len(again.bubbles) = Len(result.bubbles)
             /\ \A i \in 1..Len(result.bubbles) :
                   /\ again.bubbles[i].filledRatio
                         = result.bubbles[i].filledRatio
                   /\ again.bubbles[i].contourIndex
                         = result.bubbles[i].contourIndex
             /\ Len(again.questions) = Len(result.questions)
             /\ \A q \in 1..Len(result.questions) :
                   /\ again.questions[q].scores = result.questions[q].scores
                   /\ (/\ result.questions[q].selected # Undefined
                       /\ RatGT(Rat(t, 100), SelectedScore(result.questions[q])))
                         => again.questions[q].selected
                               # result.questions[q].selected

\* a raised threshold that unselects the answer of one question and keeps
\* the answer of another
C13_Witness ==
    /\ Returned
    /\ \E t \in RaisedThresholds : \E q, p \in 1..Len(result.questions) :
         /\ result.questions[q].selected # Undefined
         /\ result.questions[p].selected # Undefined
         /\ RatGT(Rat(t, 100), SelectedScore(result.questions[q]))
         /\ RatGE(SelectedScore(result.questions[p]), Rat(t, 100))
         /\ WithThreshold(t).questions[q].selected = Undefined
         /\ WithThreshold(t).questions[p].selected
               = result.questions[p].selected

----------------------------------------------------------------------------
\* the relaxed pass has run and left fewer than ten candidates
Degraded == Ran("relaxedPass") /\ failedAt # "relaxedPass"
               /\ Len(bubbles) < MinCandidates

\* the number of bubbles in the rows rs
RECURSIVE MembersIn(_, _)
MembersIn(rs, q) ==
    IF q > Len(rs) THEN 0 ELSE Len(rs[q]) + MembersIn(rs, q + 1)

(* C15: with fewer than ten candidates after the relaxed pass the call     *)
(* does not fail for want of candidates, and what it returns holds every   *)
(* candidate, classified, and one question for each row they form.         *)

C15_DegradedStillReturned ==
    Degraded =>
      /\ pc = "failed" => failedAt = "classify" /\ bubbles # <<>>
      /\ pc = "done" =>
           /\ result.returned
           /\ Len(result.bubbles) = Len(bubbles)
           /\ { result.bubbles[i].contourIndex : i \in 1..Len(result.bubbles) }
                 = { bubbles[i].contourIndex : i \in 1..Len(bubbles) }
           /\ \A i \in 1..Len(result.bubbles) :
                 result.bubbles[i].filledRatio
                    \in { FilledRatio(contours[k].total, contours[k].white) :
                             k \in { j \in 1..Len(contours) :
                                       j - 1 = result.bubbles[i].contourIndex } }
           /\ MembersIn(rows, 1) = Len(bubbles)
           /\ Len(result.questions) = Len(rows)
           /\ \A q \in 1..Len(rows) :
                 Len(result.questions[q].scores) > 0

\* a call that found three candidates, one of them in the relaxed pass,
\* and returned them
C15_Witness ==
    /\ Degraded
    /\ pc = "done"
    /\ Len(bubbles) > FirstPassCount
    /\ Len(result.bubbles) >= 2
    /\ Len(result.questions) >= 1

----------------------------------------------------------------------------
\* how many times a stage was entered
Entered(stage) == Cardinality({ i \in 1..Len(trace) : trace[i] = stage })

\* the stages after the image is read
AnalysisStages ==
    {"clahe", "blur", "threshold", "morph", "findContours", "firstPass",
     "relaxedPass", "classify", "cluster", "select", "cleanup"}

(* C16: for an image whose load fails, or whose size is zero, the call     *)
(* never returns a result: once past the wait for the image it has failed  *)
(* (at ensureImageEl for a failed load, at imread for a zero size), no     *)
(* stage after imread has run, nothing was extracted, classified or        *)
(* selected, and no stage was entered twice.                               *)

C16_LoadErrorWitness ==
    /\ imgComplete = "error"
    /\ pc = "failed"
    /\ failedAt = "ensureImageEl"
    /\ trace = <<"waitForCv", "ensureImageEl">>

----------------------------------------------------------------------------
\* the values of expectedQuestions a second caller could have supplied
ExpectedQuestionsChoices == {Undefined, Some(1), Some(3)}

\* the candidates of this call under another value of expectedQuestions
WithExpectedQuestions(e) ==
    Analyze(contours, height, [opts EXCEPT !.expectedQuestions = e])

(* C18: the questions and bubbles a call returns are those it returns for  *)
(* the same image and the same other options under any other value of      *)
(* expectedQuestions; in particular it returns one question per row found, *)
(* whether or not that number is the expected one.                         *)

----------------------------------------------------------------------------
\* the relaxed pass has run to its end
RelaxedDone == Ran("relaxedPass") /\ failedAt # "relaxedPass"

DistSq(b, c) == (b.x - c.x) * (b.x - c.x) + (b.y - c.y) * (b.y - c.y)

\* the centre of b is farther than max(5, 0.6 r) from the centre of c, r
\* being the radius of c
FartherThanLimit(b, c) ==
    IF 6 * c.r > 50 THEN 100 * DistSq(b, c) > 36 * c.r * c.r
    ELSE DistSq(b, c) > 25

\* the centre of b is at least max(5, 0.6 r) from the centre of c
AtLeastLimit(b, c) ==
    IF 6 * c.r > 50 THEN 100 * DistSq(b, c) >= 36 * c.r * c.r
    ELSE DistSq(b, c) >= 25

\* the positions in bubbles of the candidates the relaxed pass added, n0
\* being the number of candidates of the first pass
RelaxedAdded(n0) == (n0 + 1)..Len(bubbles)

\* the positions in bubbles of the candidates accepted before the relaxed
\* pass examines region i
AcceptedBefore(i, n0) ==
    { k \in 1..Len(bubbles) : k <= n0 \/ bubbles[k].contourIndex < i - 1 }

(* C20 as stated: every candidate the relaxed pass added is farther than   *)
(* max(5, 0.6 r) from every candidate accepted before it.                  *)

C20_Original ==
    RelaxedDone =>
      \A j \in RelaxedAdded(FirstPassCount) : \A k \in 1..(j - 1) :
         FartherThanLimit(bubbles[k], bubbles[j])

(* C20 amended: every candidate the relaxed pass added is at least         *)
(* max(5, 0.6 r) from every candidate accepted before it, those added      *)
(* earlier in the same pass included; a region that meets the relaxed      *)
(* area and circularity test and was not added is strictly nearer than     *)
(* that to a candidate accepted before it was examined.                    *)

C20_AddedUnlessStrictlyNearer ==
    RelaxedDone =>
      LET n0 == Len(FirstPass(contours, 1, opts, <<>>))
      IN  /\ \A j \in RelaxedAdded(n0) : \A k \in 1..(j - 1) :
                AtLeastLimit(bubbles[k], bubbles[j])
          /\ \A i \in 1..Len(contours) :
                (/\ AcceptedRelaxed(contours[i], opts)
                 /\ ~\E j \in RelaxedAdded(n0) :
                        bubbles[j].contourIndex = i - 1)
                  => \E k \in AcceptedBefore(i, n0) :
                        ~AtLeastLimit(bubbles[k], contours[i])

\* a region was added at exactly the limit from a candidate accepted before
C20_Witness ==
    /\ RelaxedDone
    /\ \E j \in RelaxedAdded(FirstPassCount) : \E k \in 1..(j - 1) :
          /\ AtLeastLimit(bubbles[k], bubbles[j])
          /\ ~FartherThanLimit(bubbles[k], bubbles[j])

----------------------------------------------------------------------------
(* C17: with a second call running on another image, interleaved at the    *)
(* awaits in any order and whether or not it fails, each call that         *)
(* returns has returned what its own image and options give on their own,  *)
(* the first call's candidates, rows and questions at every stage are      *)
(* those of its own contour list, and a call that fails returns nothing.   *)

C17_BothReturnWitness ==
    /\ peer.pc = "done"
    /\ peer.sawMain = "done"
    /\ pc = "done"
    /\ Len(result.questions) >= 2
    /\ Len(peer.result.questions) = 1
    /\ result # peer.result

----------------------------------------------------------------------------
(* C19: a file the form marked valid, posted with an exam version and an   *)
(* exam date, is never answered 'Image validation failed'.                 *)

C19_ClientValidPassesServer ==
    \A i \in 1..Len(responses) :
       (/\ validateFile(responses[i].request).valid
        /\ responses[i].request.examVersion \in ExamVersions
        /\ responses[i].request.examDate # "")
         => responses[i].error # "Image validation failed"

----------------------------------------------------------------------------
\* 200 times max(8, h / 200), the tolerance without rounding
ExactTolerance200(h) == Max2(1600, h)

\* max(8, h / 200 rounded to the nearest integer, halves up), written out
RoundedTolerance(h) == IF h < 1700 THEN 8 ELSE (h + 100) \div 200

\* 200 k times the distance between the y of member i of a row and the mean
\* y of its first k members
Distance200(row, i, k) == 200 * Abs(row[i].y * k - PrefixSumY(row, k))

(* C21 as stated: every bubble joined its row, or opened a new one, by the *)
(* comparison of its distance to the row's mean with max(8, height / 200). *)

C21_Original ==
    Selection =>
      \A q \in 1..Len(rows) :
         /\ \A i \in 2..Len(rows[q]) :
               Distance200(rows[q], i, i - 1)
                  <= ExactTolerance200(height) * (i - 1)
         /\ q > 1 =>
               200 * Abs(rows[q][1].y * Len(rows[q - 1])
                           - PrefixSumY(rows[q - 1], Len(rows[q - 1])))
                  > ExactTolerance200(height) * Len(rows[q - 1])

(* C21 amended: the comparison is with max(8, round(height / 200)), the    *)
(* quotient rounded to the nearest integer, halves up: 8 for heights below *)
(* 1700, 9 for 1700, 10 for 2000.                                          *)

C21_RoundedTolerance ==
    Selection =>
      \A q \in 1..Len(rows) :
         /\ \A i \in 2..Len(rows[q]) :
               Abs(rows[q][i].y * (i - 1) - PrefixSumY(rows[q], i - 1))
                  <= RoundedTolerance(height) * (i - 1)
         /\ q > 1 =>
               Abs(rows[q][1].y * Len(rows[q - 1])
                     - PrefixSumY(rows[q - 1], Len(rows[q - 1])))
                  > RoundedTolerance(height) * Len(rows[q - 1])

\* on an image 1700 high two bubbles 9 apart share a row
C21_Witness ==
    /\ Returned
    /\ height = 1700
    /\ \E q \in 1..Len(rows) :
          /\ Len(rows[q]) >= 2
          /\ rows[q][2].y - rows[q][1].y = 9

----------------------------------------------------------------------------
\* the position in the sorted bubbles of the first member of row q
RECURSIVE StartOf(_)
StartOf(q) == IF q = 1 THEN 1 ELSE StartOf(q - 1) + Len(rows[q - 1])

\* the bubbles are in the order of the sort: by y, and by x where y is equal
SortedYX(bs) ==
    \A i \in 1..(Len(bs) - 1) :
       \/ bs[i].y < bs[i + 1].y
       \/ bs[i].y = bs[i + 1].y /\ bs[i].x <= bs[i + 1].x

(* C22: the rows are consecutive runs of the bubbles sorted by y then x,   *)
(* taken in that order (no bubble goes to an earlier row); every member of *)
(* a row but its first lies within rowTolerance of the mean y of the       *)
(* members before it in the row, and the first member of every row but the *)
(* first lies farther than rowTolerance from the mean y of the whole row   *)
(* before it.                                                              *)

C22_SingleForwardScan ==
    Selection =>
      /\ SortedYX(filledBubbles)
      /\ \A q \in 1..Len(rows) :
            /\ Len(rows[q]) >= 1
            /\ StartOf(q) + Len(rows[q]) - 1 <= Len(filledBubbles)
            /\ \A i \in 1..Len(rows[q]) :
                  rows[q][i] = filledBubbles[StartOf(q) + i - 1]
            /\ \A i \in 2..Len(rows[q]) :
                  Abs(rows[q][i].y * (i - 1) - PrefixSumY(rows[q], i - 1))
                     <= RowTolerance(height) * (i - 1)
            /\ q > 1 =>
                  Abs(rows[q][1].y * Len(rows[q - 1])
                        - PrefixSumY(rows[q - 1], Len(rows[q - 1])))
                     > RowTolerance(height) * Len(rows[q - 1])
      /\ Len(rows) > 0 =>
            StartOf(Len(rows)) + Len(rows[Len(rows)]) - 1 = Len(filledBubbles)
      /\ Len(rows) = 0 => filledBubbles = <<>>

\* a bubble joined a row at exactly rowTolerance from the mean of the
\* members before it, and a later bubble started a new row
C22_Witness ==
    /\ Selection
    /\ Len(rows) >= 2
    /\ \E i \in 2..Len(rows[1]) :
          Abs(rows[1][i].y * (i - 1) - PrefixSumY(rows[1], i - 1))
             = RowTolerance(height) * (i - 1)

----------------------------------------------------------------------------
\* the sum of the first k group sizes
RECURSIVE SizesUpTo(_, _)
SizesUpTo(sz, k) == IF k = 0 THEN 0 ELSE sz[k] + SizesUpTo(sz, k - 1)

\* the sum of the fill ratios of row[a..b]
RECURSIVE RangeRatio(_, _, _)
RangeRatio(row, a, b) ==
    IF b < a THEN Rat(0, 1)
    ELSE RatAdd(row[b].filledRatio, RangeRatio(row, a, b - 1))

\* the ways to cut n bubbles into e consecutive non-empty groups whose sizes
\* differ by at most one: every size is n \div e or one more
BalancedSizes(n, e) ==
    { sz \in [1..e -> {n \div e, n \div e + 1}] :
         /\ SizesUpTo(sz, e) = n
         /\ \A k \in 1..e : sz[k] >= 1
         /\ \A j, k \in 1..e : Abs(sz[j] - sz[k]) <= 1 }

(* C23: a row of n bubbles merged down to expectedOptions = E < n is cut,  *)
(* in the order of x, into E consecutive groups that are disjoint, cover   *)
(* the row, are non-empty and differ in size by at most one; score k is    *)
(* the arithmetic mean of the fill ratios of group k.                      *)

C23_MergeGroupsBalanced ==
    Selection =>
      \A q \in 1..Len(rows) :
         LET e == ExpectedOptions(opts)
             n == Len(rows[q])
             row == SortX(rows[q])
             sc == questions[q].scores
         IN  (e >= 1 /\ n > e) =>
               /\ Len(sc) = e
               /\ \E sz \in BalancedSizes(n, e) :
                     \A k \in 1..e :
                        sc[k] = RatDivInt(
                                   RangeRatio(row, SizesUpTo(sz, k - 1) + 1,
                                              SizesUpTo(sz, k)),
                                   sz[k])

\* a row of 5 merged to 3 groups of sizes 2, 2 and 1 whose ratios differ
C23_Witness ==
    /\ Selection
    /\ ExpectedOptions(opts) = 3
    /\ \E q \in 1..Len(rows) :
          /\ Len(rows[q]) = 5
          /\ \E i, j \in 1..5 :
                rows[q][i].filledRatio # rows[q][j].filledRatio
          /\ questions[q].scores[1] # questions[q].scores[3]

----------------------------------------------------------------------------
\* the index of region i of the list is recorded among the candidates
Recorded(i) == \E k \in 1..Len(bubbles) : bubbles[k].contourIndex = i - 1

\* 4 * pi * area / perim^2 >= 0.35, counted as 0 when the perimeter is 0
CircularEnough(c) ==
    c.perim > 0 /\ 4 * 22 * c.area * 100 >= 35 * 7 * c.perim * c.perim

JustAfterFirstPass ==
    /\ Len(trace) > 0
    /\ trace[Len(trace)] = "firstPass"
    /\ pc \in {"relaxedPass", "classify"}

(* C24: after the first extraction pass a region is a candidate if and     *)
(* only if minArea <= area <= maxArea (both bounds inclusive) and its      *)
(* circularity 4*pi*area/perimeter^2 is at least 0.35; a region of zero    *)
(* perimeter has circularity 0 and is rejected.                            *)

C24_CircularityWitness ==
    /\ JustAfterFirstPass
    /\ \E i, j \in 1..Len(contours) :
          /\ 4 * 22 * contours[i].area * 100
                = 35 * 7 * contours[i].perim * contours[i].perim
          /\ Recorded(i)
          /\ contours[j].perim = 0 /\ ~Recorded(j)

----------------------------------------------------------------------------
\* the region a returned bubble was extracted from
RegionOf(b) == contours[b.contourIndex + 1]

\* the fill threshold in percent: 35 when not configured
ThresholdPct ==
    IF opts.fillThreshold = Undefined THEN 35 ELSE opts.fillThreshold[1]

(* C25: every returned bubble has a fill ratio between 0 and 1, equal to   *)
(* (pixels inside its mask minus those classified light) divided by the    *)
(* pixels inside the mask, and 0 when the mask is empty; its isFilled flag *)
(* is true exactly when the ratio is at least fillThreshold (0.35 when not *)
(* configured).                                                            *)

C25_FillRatioInUnitInterval ==
    Returned =>
      \A i \in 1..Len(result.bubbles) :
         LET b == result.bubbles[i]
             c == RegionOf(b)
             n == b.filledRatio.n
             d == b.filledRatio.d
         IN  /\ d > 0 /\ 0 <= n /\ n <= d
             /\ c.total > 0 => n * c.total = (c.total - c.white) * d
             /\ c.total = 0 => n = 0
             /\ b.isFilled <=> (100 * n >= ThresholdPct * d)

\* a bubble with an empty mask and ratio 0 is returned, one bubble is
\* returned filled and one not
C25_Witness ==
    /\ Returned
    /\ \E i \in 1..Len(result.bubbles) :
          RegionOf(result.bubbles[i]).total = 0
    /\ \E i, j \in 1..Len(result.bubbles) :
          result.bubbles[i].isFilled /\ ~result.bubbles[j].isFilled

\* a bubble whose ratio equals a configured threshold is returned filled
C25_ThresholdWitness ==
    /\ Returned
    /\ opts.fillThreshold # Undefined
    /\ \E i \in 1..Len(result.bubbles) :
          /\ 100 * result.bubbles[i].filledRatio.n
                = ThresholdPct * result.bubbles[i].filledRatio.d
          /\ result.bubbles[i].isFilled

----------------------------------------------------------------------------
\* the candidates as the first pass left them
FirstPassCandidates == FirstPass(contours, 1, opts, <<>>)

(* C26: the relaxed pass only adds candidates: after it every candidate of *)
(* the first pass is still present, unchanged and at the same position,    *)
(* and no region is recorded as two candidates, although the relaxed pass  *)
(* examines again the regions the first pass accepted.                     *)

C26_RelaxedPassOnlyAdds ==
    RelaxedDone =>
      LET first == FirstPassCandidates
      IN  /\ Len(bubbles) >= Len(first)
          /\ \A k \in 1..Len(first) : bubbles[k] = first[k]
          /\ \A j, k \in 1..Len(bubbles) :
                j # k => bubbles[j].contourIndex # bubbles[k].contourIndex

\* the first pass accepted a region, which the relaxed pass examined again
\* and passed its area and circularity test, and the relaxed pass added
\* another region
C26_Witness ==
    /\ RelaxedDone
    /\ Len(FirstPassCandidates) >= 1
    /\ Len(bubbles) > Len(FirstPassCandidates)
    /\ \E i \in 1..Len(contours) :
          AcceptedFirst(contours[i], opts) /\ AcceptedRelaxed(contours[i], opts)

----------------------------------------------------------------------------
\* the first n rows joined end to end
RECURSIVE Concat(_, _)
Concat(rs, n) == IF n = 0 THEN <<>> ELSE Concat(rs, n - 1) \o rs[n]

\* the places <<q, k>> of the rows that hold bubble b
PlacesOf(b) ==
    { p \in UNION { { <<q, k>> : k \in 1..Len(rows[q]) } : q \in 1..Len(rows) } :
         rows[p[1]][p[2]] = b }

(* C27: the rows partition the returned bubbles: every returned bubble is  *)
(* in exactly one row, no row is empty, and the rows joined in order are   *)
(* the returned bubbles, which are sorted by y and then x; so there are at *)
(* most as many questions as bubbles, and no questions only when there are *)
(* no bubbles.                                                             *)

C27_RowsPartitionBubbles ==
    Returned =>
      /\ \A i \in 1..Len(result.bubbles) :
            Cardinality(PlacesOf(result.bubbles[i])) = 1
      /\ \A q \in 1..Len(rows) : rows[q] # <<>>
      /\ Concat(rows, Len(rows)) = result.bubbles
      /\ SortedYX(result.bubbles)
      /\ Len(result.questions) = Len(rows)
      /\ Len(result.questions) <= Len(result.bubbles)
      /\ Len(result.questions) = 0 <=> Len(result.bubbles) = 0

\* three bubbles are returned in two rows, listed by findContours in another
\* order than that of y and x
C27_Witness ==
    /\ Returned
    /\ Len(result.bubbles) >= 3
    /\ Len(rows) = 2
    /\ \E i, j \in 1..Len(result.bubbles) :
          i < j /\ result.bubbles[i].contourIndex > result.bubbles[j].contourIndex

\* nothing is returned: no bubbles, no rows and no questions
C27_EmptyWitness ==
    /\ Returned
    /\ result.bubbles = <<>>
    /\ result.questions = <<>>
    /\ contours # <<>>

----------------------------------------------------------------------------
(* C28: provided the toolkit becomes available and the image loads, every  *)
(* call of analyze resolves, also when several calls are started on the    *)
(* same image element before it has loaded: once the toolkit is there and  *)
(* the load event has run, no call is still waiting for the load event     *)
(* (such a call would wait forever, the event running once).               *)

C28_NoCallLeftWaiting ==
    (cvReady /\ element = "complete") =>
       \A c \in DOMAIN calls : calls[c] # "awaitLoad"

(* C28 as a property of behaviours: a call that has been made on an image  *)
(* that loads leads to the call having returned or thrown.                 *)

C28_EveryCallResolves ==
    \A c \in CallIds :
       (calls[c] # "notCalled") ~>
          (calls[c] \in {"done", "failed"} \/ element = "broken")

----------------------------------------------------------------------------
\* the job records of the store, and whether the result of upload u is
\* stored (after a step when next is TRUE)
JobKeys == DOMAIN kv.processing

ResultOf(store, u) == \E sid \in DOMAIN store.results : store.results[sid] = u

FinalStatuses == {"completed", "error"}

(* C29: a job record starts with status 'queued' and reaches exactly one   *)
(* final status, 'completed' or 'error': a final status never changes      *)
(* again (a failure while the result is stored does not turn 'completed'   *)
(* into 'error'), and whenever a job is 'completed' its result is stored.  *)

C29_OneFinalStatus ==
    [][\A j \in DOMAIN kv'.processing :
          /\ j \notin JobKeys => kv'.processing[j].status = "queued"
          /\ (j \in JobKeys /\ kv.processing[j].status \in FinalStatuses
                /\ kv'.processing[j].upload = kv.processing[j].upload)
               => kv'.processing[j].status = kv.processing[j].status
          /\ kv'.processing[j].status = "completed"
               => ResultOf(kv', kv'.processing[j].upload)]_vars

\* the part of C29 about a stored result failing, on its own: a record that
\* is 'completed' stays 'completed' while it is the same upload's record
C29_CompletedStays ==
    [][\A j \in JobKeys :
          (/\ kv.processing[j].status = "completed"
           /\ kv'.processing[j].upload = kv.processing[j].upload)
            => kv'.processing[j].status = "completed"]_vars

(* C30: every accepted upload has its own job record, also when requests   *)
(* are handled within the same millisecond: there are as many job records  *)
(* as accepted uploads, and no two uploads' processing writes to the same  *)
(* record.                                                                 *)

C30_OwnJobRecord ==
    /\ Cardinality(JobKeys) = jobs
    /\ \A t, u \in DOMAIN tasks : t # u => tasks[t].jobId # tasks[u].jobId

====
